---- MODULE Spec2Model ----
(***************************************************************************)
(* Model of the validation engine of the AX-1 Geneve 10 reproduction:      *)
(*   scripts/validation_analysis.py      (common-grid alignment, metrics)  *)
(*   scripts/validate_results.py         (report and aggregate verdict)    *)
(*   scripts/validate_simulation.py      (nearest-match time validation)   *)
(*   scripts/validate_geneve10_transient.py  (regression check)            *)
(*                                                                         *)
(* Numbers.  A floating-point value is modelled as an exact rational, or   *)
(* one of the IEEE specials NaN and +/-inf, in a record [k, n, d]:         *)
(*   k = "num": the rational n/d in lowest terms, d > 0;                   *)
(*   k = "inf": the infinity whose sign is n (1 or -1);                    *)
(*   k = "nan": not a number.                                              *)
(* Comparisons follow IEEE 754: every comparison with NaN is false.        *)
(* Rounding of the binary representation is not modelled.                  *)
(***************************************************************************)
EXTENDS Integers, Sequences, FiniteSets, TLC

VARIABLES
    \* ---- metric engines on aligned samples (calculate_errors, calculate_metrics)
    pcA,          \* "input" | "errors" | "metrics"
    unit,         \* magnitude of one count of the sample values: "one" (1.0) or "eps" (1e-10)
    ref_data,     \* reference DataFrame on the common grid: column name -> sequence of numbers
    sim_data,     \* simulation DataFrame on the common grid
    columns,      \* the list of column names passed to calculate_errors
    errors,       \* the dictionary calculate_errors returns
    metrics,      \* the dictionary calculate_metrics returns
    \* ---- common-grid alignment (interpolate_to_common_grid)
    pcG,          \* "raw" | "aligned"
    g_ref,        \* reference DataFrame as loaded
    g_sim,        \* simulation DataFrame as loaded
    ref_interp,   \* reference DataFrame on the common grid
    sim_interp,   \* simulation DataFrame on the common grid
    \* ---- validate_results.main
    pcM,          \* "step1" | "step2" | "step3" | "step5" | "step7" | "summary" | "exit"
    disk,         \* the four input files: a DataFrame each, or Missing
    ref_time,     \* main's locals of the same names; None is Missing
    ref_spatial,
    sim_time,
    sim_spatial,
    time_errors,
    spatial_errors,
    report,       \* what generate_validation_report wrote about the verdict
    exit_code,    \* main's return value, -1 until it returns
    \* ---- validate_simulation.validate_time_evolution
    pcT,          \* "load" | "match" | "returned"
    ref_file,     \* geneve10_time_evolution_extended.csv
    sim_file,     \* output_time_series.csv
    t_index,      \* position of the loop over the reference rows
    results,      \* the list of compared points
    returned,     \* "pending" | "None" | "all_pass" | "not_all_pass"
    \* ---- validate_geneve10_transient: run_check and main
    pcK,          \* "read_ref" | "read_sim" | "loop" | "exit" | "raised"
    ref_csv,      \* the file --ref-csv
    sim_csv,      \* the file --sim-csv
    args,         \* time_limit and the four tolerances
    k_ref,        \* run_check's ref: the reference rows up to time_limit
    k_sim,        \* run_check's sim: the coerced rows without NaN
    k_index,      \* position of the loop over ref
    k_rows,       \* run_check's rows, the comparison table
    passed,       \* run_check's success flag
    exit_status,  \* exit status of the process, -1 while it runs
    \* ---- parse_latex_tables
    pcP,          \* "clean" | "parse" | "dedup" | "done"
    fragment,     \* the argument of clean_latex_number
    cleaned,      \* what clean_latex_number returned
    value,        \* float(cleaned)
    table_kind,   \* "time" (parse_time_series_table) | "spatial" (parse_spatial_table)
    latex_lines,  \* the lines latex_lines[start_line:end_line]
    line_no,      \* position of the loop over the lines
    data,         \* the rows parsed so far
    unique_time_data,    \* all_time_data before the duplicates are removed
    all_time_data,       \* all_time_data as extract_all_geneve10_tables returns it
    \* ---- parse_latex_tables.extract_all_geneve10_tables: the table blocks
    pcB,          \* "scan" | "classify" | "done"
    lines,        \* the lines of the LaTeX file
    line_index,   \* i of the loop over the lines (0-based)
    in_table,     \* a block is open
    table_start,  \* index of the line that opened it, -1 for None
    table_blocks, \* the list of (start, end) pairs
    block_kinds,  \* per block: "time" | "spatial" | "none", the parser it was given to
    \* ---- validate_simulation.main
    pcS,          \* "time" | "spatial" | "summary" | "done" | "raised"
    spatial_files,    \* the two spatial CSV files as validate_spatial_profile finds them
    spatial_returned, \* "pending" | "None" | "all_pass" | "not_all_pass"
    summary       \* the verdict printed under FINAL VALIDATION SUMMARY, "" before

varsA == <<pcA, unit, ref_data, sim_data, columns, errors, metrics>>

varsG == <<pcG, g_ref, g_sim, ref_interp, sim_interp>>

varsM == <<pcM, disk, ref_time, ref_spatial, sim_time, sim_spatial,
           time_errors, spatial_errors, report, exit_code>>

varsT == <<pcT, ref_file, sim_file, t_index, results, returned>>

varsK == <<pcK, ref_csv, sim_csv, args, k_ref, k_sim, k_index, k_rows, passed, exit_status>>

varsP == <<pcP, fragment, cleaned, value, table_kind, latex_lines, line_no, data,
           unique_time_data, all_time_data>>

varsB == <<pcB, lines, line_index, in_table, table_start, table_blocks, block_kinds>>

varsS == <<pcS, spatial_files, spatial_returned, summary>>

vars == <<varsA, varsG, varsM, varsT, varsK, varsP, varsB, varsS>>

-----------------------------------------------------------------------------
(* Floating-point numbers as exact rationals with NaN and inf.             *)

Abs(i) == IF i < 0 THEN -i ELSE i

Sign(i) == IF i < 0 THEN -1 ELSE IF i > 0 THEN 1 ELSE 0

RECURSIVE GCD(_, _)
GCD(a, b) == IF b = 0 THEN a ELSE GCD(b, a % b)

NaN == [k |-> "nan", n |-> 0, d |-> 1]

Inf(s) == [k |-> "inf", n |-> s, d |-> 1]

\* the rational n/d (d # 0) in lowest terms
Q(n, d) ==
    LET g == GCD(Abs(n), Abs(d))
    IN  [k |-> "num", n |-> Sign(d) * (n \div g), d |-> Abs(d) \div g]

IsNum(a) == a.k = "num"

IsNaN(a) == a.k = "nan"

\* np.isfinite
IsFinite(a) == a.k = "num"

\* the sign of a number that is not NaN
SignOf(a) == Sign(a.n)

NNeg(a) == IF IsNum(a) THEN Q(-a.n, a.d) ELSE IF IsNaN(a) THEN NaN ELSE Inf(-a.n)

\* abs(), np.abs
NAbs(a) == IF IsNum(a) THEN Q(Abs(a.n), a.d) ELSE IF IsNaN(a) THEN NaN ELSE Inf(1)

NAdd(a, b) ==
    IF IsNaN(a) \/ IsNaN(b) THEN NaN
    ELSE IF IsNum(a) /\ IsNum(b) THEN Q(a.n * b.d + b.n * a.d, a.d * b.d)
    ELSE IF IsNum(a) THEN b
    ELSE IF IsNum(b) THEN a
    ELSE IF a.n = b.n THEN a ELSE NaN

NSub(a, b) == NAdd(a, NNeg(b))

NMul(a, b) ==
    IF IsNaN(a) \/ IsNaN(b) THEN NaN
    ELSE IF IsNum(a) /\ IsNum(b) THEN Q(a.n * b.n, a.d * b.d)
    ELSE IF SignOf(a) * SignOf(b) = 0 THEN NaN
    ELSE Inf(SignOf(a) * SignOf(b))

\* numpy float64 division: x/0 is +/-inf, 0/0 is NaN, no exception
NDiv(a, b) ==
    IF IsNaN(a) \/ IsNaN(b) THEN NaN
    ELSE IF IsNum(a) /\ IsNum(b)
         THEN IF b.n # 0 THEN Q(a.n * b.d, a.d * b.n)
              ELSE IF a.n = 0 THEN NaN ELSE Inf(SignOf(a))
    ELSE IF IsNum(a) THEN Q(0, 1)
    ELSE IF IsNum(b) THEN Inf(SignOf(a) * (IF SignOf(b) < 0 THEN -1 ELSE 1))
    ELSE NaN

\* a < b
NLt(a, b) ==
    /\ ~IsNaN(a)
    /\ ~IsNaN(b)
    /\ IF IsNum(a) /\ IsNum(b) THEN a.n * b.d < b.n * a.d
       ELSE IF IsNum(a) THEN b.n > 0
       ELSE IF IsNum(b) THEN a.n < 0
       ELSE a.n < b.n

\* a == b
NEq(a, b) == ~IsNaN(a) /\ ~IsNaN(b) /\ a = b

NGt(a, b) == NLt(b, a)

NLe(a, b) == NLt(a, b) \/ NEq(a, b)

NGe(a, b) == NLe(b, a)

RECURSIVE NSum(_)
NSum(s) == IF Len(s) = 0 THEN Q(0, 1) ELSE NAdd(Head(s), NSum(Tail(s)))

\* np.mean: the mean of an empty array is NaN
NMean(s) == NDiv(NSum(s), Q(Len(s), 1))

\* np.max of a non-empty array: NaN if any element is NaN
RECURSIVE NMax(_)
NMax(s) ==
    IF Len(s) = 1 THEN Head(s)
    ELSE LET m == NMax(Tail(s))
         IN  IF IsNaN(Head(s)) \/ IsNaN(m) THEN NaN
             ELSE IF NLt(m, Head(s)) THEN Head(s) ELSE m

\* the elements s[i] with keep[i], in order (boolean-mask indexing)
Masked(s, keep) ==
    LET Kept(i) == keep[i]
        idx == SelectSeq([i \in 1..Len(s) |-> i], Kept)
    IN  [j \in 1..Len(idx) |-> s[idx[j]]]

-----------------------------------------------------------------------------
(* validation_analysis.py: ValidationAnalysis.calculate_errors             *)

\* the time-evolution columns validate_results.main compares
TimeColumns == <<"QP_1e12_erg", "power_relative", "alpha_1_microsec">>

\* np.abs(ref_vals) > 1e-10, for a value x counted in units of u.
\* u = "eps": x stands for x * 1e-10, so the test is |x| > 1.
\* u = "one": x is a rational whose numerator and denominator are far below
\*            1e10, so |x| > 1e-10 exactly when x is not zero.
AboveFloor_AtFloorKept(x, u) ==
    IF u = "eps" THEN NGe(NAbs(x), Q(1, 1)) ELSE NGe(NAbs(x), Q(0, 1))

AboveFloor(x, u) ==
    IF u = "eps" THEN NGt(NAbs(x), Q(1, 1)) ELSE NGt(NAbs(x), Q(0, 1))

FloorMask(ref_vals, u) == [i \in 1..Len(ref_vals) |-> AboveFloor(ref_vals[i], u)]

RelError_Signed(sim_val, ref_val) == NDiv(NSub(sim_val, ref_val), ref_val)

\* rel_error = np.abs((sim_vals[mask] - ref_vals[mask]) / ref_vals[mask])
RelError(sim_val, ref_val) == NAbs(NDiv(NSub(sim_val, ref_val), ref_val))

\* np.abs(sim_vals[mask] - ref_vals[mask])
AbsError(sim_val, ref_val) == NAbs(NSub(sim_val, ref_val))

\* (sim_vals[mask] - ref_vals[mask])**2
SqError(sim_val, ref_val) == NMul(NSub(sim_val, ref_val), NSub(sim_val, ref_val))

\* the entry errors[col]; rms_error is kept as its square (the mean of the
\* squared differences), the square root having no exact rational value
ColumnErrors(ref_vals, sim_vals, u) ==
    LET mask == FloorMask(ref_vals, u)
        r == Masked(ref_vals, mask)
        s == Masked(sim_vals, mask)
        rel_error == [i \in 1..Len(r) |-> RelError(s[i], r[i])]
    IN  IF Len(r) > 0
        THEN [mean_relative_error |-> NMean(rel_error),
              max_relative_error  |-> NMax(rel_error),
              rms_error_sq        |-> NMean([i \in 1..Len(r) |-> SqError(s[i], r[i])]),
              max_absolute_error  |-> NMax([i \in 1..Len(r) |-> AbsError(s[i], r[i])]),
              mean_reference      |-> NMean(r),
              mean_simulation     |-> NMean(s)]
        ELSE [mean_relative_error |-> NaN,
              max_relative_error  |-> NaN,
              rms_error_sq        |-> NaN,
              max_absolute_error  |-> NaN,
              mean_reference      |-> Q(0, 1),
              mean_simulation     |-> Q(0, 1)]

SeqRange(s) == {s[i] : i \in 1..Len(s)}

\* errors: one entry per requested column present in both DataFrames
calculate_errors(ref, sim, cols, u) ==
    [col \in {c \in SeqRange(cols) : c \in DOMAIN ref /\ c \in DOMAIN sim} |->
        ColumnErrors(ref[col], sim[col], u)]

-----------------------------------------------------------------------------
(* validation_analysis.py: ValidationAnalysis.interpolate_to_common_grid   *)
(* A DataFrame is a function from column names to equally long sequences;  *)
(* a cell is a number or a text [k |-> "str"] (a column with a text cell   *)
(* has dtype object).  The datasets given to it have at least two records  *)
(* with distinct keys in ascending order.                                  *)

Text == [k |-> "str", n |-> 0, d |-> 1]

\* cap on the number of common grid points
GridCap == 100

Min2(a, b) == IF a < b THEN a ELSE b

\* Series.min() and Series.max() of a key column
SeqMin(s) == s[CHOOSE i \in 1..Len(s) : \A j \in 1..Len(s) : ~NLt(s[j], s[i])]

SeqMax(s) == s[CHOOSE i \in 1..Len(s) : \A j \in 1..Len(s) : ~NGt(s[j], s[i])]

\* np.linspace(start, stop, num): the last point is stop itself
linspace(start, stop, num) ==
    [i \in 1..num |->
        IF num = 1 THEN start
        ELSE IF i = num THEN stop
        ELSE NAdd(start, NDiv(NMul(Q(i - 1, 1), NSub(stop, start)), Q(num - 1, 1)))]

\* np.issubdtype(df[col].dtype, np.number)
IsNumberColumn(col) == \A i \in 1..Len(col) : col[i].k # "str"

\* interp1d(x, y, kind='linear', fill_value='extrapolate')(v): the segment is
\* found by searchsorted and clipped to the first or last one, so a point
\* outside the range of x is extrapolated along the end segment
interp1d(x, y, v) ==
    LET below == Cardinality({j \in 1..Len(x) : NLt(x[j], v)})
        hi0 == IF below < 1 THEN 1 ELSE IF below > Len(x) - 1 THEN Len(x) - 1 ELSE below
        lo == hi0
        hi == hi0 + 1
        slope == NDiv(NSub(y[hi], y[lo]), NSub(x[hi], x[lo]))
    IN  NAdd(NMul(slope, NSub(v, x[lo])), y[lo])

CommonGrid_NoCap(ref, sim, x_col) ==
    LET x_min == SeqMax(<<SeqMin(ref[x_col]), SeqMin(sim[x_col])>>)
        x_max == SeqMin(<<SeqMax(ref[x_col]), SeqMax(sim[x_col])>>)
    IN  linspace(x_min, x_max, Min2(Len(ref[x_col]), Len(sim[x_col])))

\* the common grid: x_min, x_max, n_points, x_common
CommonGrid(ref, sim, x_col) ==
    LET x_min == SeqMax(<<SeqMin(ref[x_col]), SeqMin(sim[x_col])>>)
        x_max == SeqMin(<<SeqMax(ref[x_col]), SeqMax(sim[x_col])>>)
        n_points == Min2(Min2(Len(ref[x_col]), Len(sim[x_col])), GridCap)
    IN  linspace(x_min, x_max, n_points)

\* one DataFrame resampled on x_common, keeping the columns in keep
Resample(df, x_col, x_common, keep) ==
    [col \in {x_col} \cup {c \in keep : c # x_col /\ IsNumberColumn(df[c])} |->
        IF col = x_col THEN x_common
        ELSE [i \in 1..Len(x_common) |-> interp1d(df[x_col], df[col], x_common[i])]]

\* returns <<ref_interp, sim_interp>>
interpolate_to_common_grid(ref, sim, x_col) ==
    LET x_common == CommonGrid(ref, sim, x_col)
    IN  << Resample(ref, x_col, x_common, DOMAIN ref),
           Resample(sim, x_col, x_common, DOMAIN sim \cap DOMAIN ref) >>

-----------------------------------------------------------------------------
(* validate_simulation.py: calculate_metrics                               *)

\* mask = np.isfinite(ref) & np.isfinite(sim) & (ref != 0)
CleanMask(ref, sim) ==
    [i \in 1..Len(ref) |-> IsFinite(ref[i]) /\ IsFinite(sim[i]) /\ ~NEq(ref[i], Q(0, 1))]

\* the relative errors are reported in percent; rms_error is kept as its square
calculate_metrics(ref, sim) ==
    LET mask == CleanMask(ref, sim)
        ref_clean == Masked(ref, mask)
        sim_clean == Masked(sim, mask)
        abs_error == [i \in 1..Len(ref_clean) |-> NAbs(NSub(sim_clean[i], ref_clean[i]))]
        rel_error == [i \in 1..Len(ref_clean) |-> NDiv(abs_error[i], NAbs(ref_clean[i]))]
    IN  IF Len(ref_clean) = 0
        THEN [max_abs_error   |-> NaN,
              max_rel_error   |-> NaN,
              rms_error_sq    |-> NaN,
              mean_rel_error  |-> NaN,
              points_compared |-> 0]
        ELSE [max_abs_error   |-> NMax(abs_error),
              max_rel_error   |-> NMul(NMax(rel_error), Q(100, 1)),
              rms_error_sq    |-> NMean([i \in 1..Len(ref_clean) |-> NMul(abs_error[i], abs_error[i])]),
              mean_rel_error  |-> NMul(NMean(rel_error), Q(100, 1)),
              points_compared |-> Len(ref_clean)]

-----------------------------------------------------------------------------
(* The metric engines applied to aligned samples.                          *)

\* largest number of aligned samples enumerated
MaxLen == 2

\* reference sample values enumerated (in counts of the unit)
RefVals == {Q(0, 1), Q(1, 1), Q(2, 1), Q(-4, 1)}

\* simulation sample values enumerated; NaN is a missing entry
SimVals == {Q(2, 1), Q(3, 1), NaN}

NoResult == [c \in {} |-> NaN]

\* the worked example of the specification
ExampleRef == <<Q(10, 1), Q(20, 1), Q(30, 1)>>

ExampleSim == <<Q(11, 1), Q(19, 1), Q(33, 1)>>

\* the second column, when a DataFrame has it, holds a constant series
ConstColumn(len, v) == [i \in 1..len |-> v]

Frame(qp, withPower, v) ==
    IF withPower
    THEN [c \in {"QP_1e12_erg", "power_relative"} |->
            IF c = "QP_1e12_erg" THEN qp ELSE ConstColumn(Len(qp), v)]
    ELSE [c \in {"QP_1e12_erg"} |-> qp]

\* the variables of the common-grid alignment, unused
IdleG ==
    /\ pcG = "idle"
    /\ g_ref = NoResult
    /\ g_sim = NoResult
    /\ ref_interp = NoResult
    /\ sim_interp = NoResult

\* a file that does not exist, and Python's None
Missing == NoResult

NoReport == [written |-> FALSE, passing |-> 0, total |-> 0, passed |-> FALSE,
             discrepancies |-> {}]

\* the variables of validate_results.main, unused
IdleM ==
    /\ pcM = "idle"
    /\ disk = NoResult
    /\ ref_time = Missing
    /\ ref_spatial = Missing
    /\ sim_time = Missing
    /\ sim_spatial = Missing
    /\ time_errors = NoResult
    /\ spatial_errors = NoResult
    /\ report = NoReport
    /\ exit_code = -1

\* a CSV file that does not exist
NoFile == [exists |-> FALSE, rows |-> <<>>]

\* the variables of validate_time_evolution, unused
IdleT ==
    /\ pcT = "idle"
    /\ ref_file = NoFile
    /\ sim_file = NoFile
    /\ t_index = 0
    /\ results = <<>>
    /\ returned = "pending"

\* the variables of the regression check, unused
IdleK ==
    /\ pcK = "idle"
    /\ ref_csv = NoFile
    /\ sim_csv = NoFile
    /\ args = NoResult
    /\ k_ref = <<>>
    /\ k_sim = <<>>
    /\ k_index = 0
    /\ k_rows = <<>>
    /\ passed = TRUE
    /\ exit_status = -1

\* the variables of the table parser, unused
IdleP ==
    /\ pcP = "idle"
    /\ fragment = <<>>
    /\ cleaned = <<>>
    /\ value = [k |-> "err"]
    /\ table_kind = "time"
    /\ latex_lines = <<>>
    /\ line_no = 0
    /\ data = <<>>
    /\ unique_time_data = <<>>
    /\ all_time_data = <<>>

\* the variables of the block locator, unused
IdleB ==
    /\ pcB = "idle"
    /\ lines = <<>>
    /\ line_index = 0
    /\ in_table = FALSE
    /\ table_start = -1
    /\ table_blocks = <<>>
    /\ block_kinds = <<>>

\* the spatial reference and simulation files, both missing: whether each
\* exists, how many zones the merge on zone_index keeps, the worst
\* assessment over the quantities, and the zone before the density jump
NoSpatialFiles ==
    [ref |-> FALSE, sim |-> FALSE, matched |-> 0, worst |-> "EXCELLENT", boundary |-> "none"]

\* the variables of validate_simulation.main, unused
IdleS ==
    /\ pcS = "idle"
    /\ spatial_files = NoSpatialFiles
    /\ spatial_returned = "pending"
    /\ summary = ""

InitA ==
    /\ IdleG
    /\ IdleM
    /\ IdleT
    /\ IdleK
    /\ IdleP
    /\ IdleB
    /\ IdleS
    /\ pcA = "input"
    /\ unit \in {"one", "eps"}
    /\ \E len \in 0..MaxLen :
         \E r \in [1..len -> RefVals] \cup {ExampleRef} :
           \E s \in {x \in [1..len -> SimVals] \cup {ExampleSim} : Len(x) = Len(r)} :
             \E rp, sp \in BOOLEAN :
                /\ ref_data = Frame(r, rp, Q(2, 1))
                /\ sim_data = Frame(s, sp, Q(3, 1))
    /\ columns \in {<<"QP_1e12_erg">>, <<"QP_1e12_erg", "power_relative">>}
    /\ errors = NoResult
    /\ metrics = NoResult

CalculateErrors ==
    /\ pcA = "input"
    /\ errors' = calculate_errors(ref_data, sim_data, columns, unit)
    /\ pcA' = "errors"
    /\ UNCHANGED <<unit, ref_data, sim_data, columns, metrics>>
    /\ UNCHANGED <<varsG, varsM, varsT, varsK, varsP, varsB, varsS>>

\* calculate_metrics applied to the QP series of the same two DataFrames
CalculateMetrics ==
    /\ pcA = "errors"
    /\ metrics' = calculate_metrics(ref_data["QP_1e12_erg"], sim_data["QP_1e12_erg"])
    /\ pcA' = "done"
    /\ UNCHANGED <<unit, ref_data, sim_data, columns, errors>>
    /\ UNCHANGED <<varsG, varsM, varsT, varsK, varsP, varsB, varsS>>

NextA == CalculateErrors \/ CalculateMetrics

SpecErrors == InitA /\ [][NextA]_vars

-----------------------------------------------------------------------------
(* Properties of the metric engines.                                       *)

\* the sum of f[i] over the index set S
RECURSIVE SetSum(_, _)
SetSum(f, S) ==
    IF S = {} THEN Q(0, 1)
    ELSE LET i == CHOOSE j \in S : TRUE IN NAdd(f[i], SetSum(f, S \ {i}))

\* the samples whose reference magnitude exceeds the floor 1e-10
Retained(ref_vals, u) ==
    {i \in 1..Len(ref_vals) :
        /\ IsNum(ref_vals[i])
        /\ IF u = "eps" THEN Abs(ref_vals[i].n) > ref_vals[i].d ELSE ref_vals[i].n # 0}

\* |sim - ref| / |ref| of every sample
RelErrs(ref_vals, sim_vals) ==
    [i \in 1..Len(ref_vals) |-> NDiv(NAbs(NSub(sim_vals[i], ref_vals[i])), NAbs(ref_vals[i]))]

AbsErrs(ref_vals, sim_vals) ==
    [i \in 1..Len(ref_vals) |-> NAbs(NSub(sim_vals[i], ref_vals[i]))]

IsMaxOver(m, f, S) == (\E i \in S : m = f[i]) /\ (\A i \in S : NLe(f[i], m))

MeanOver(f, S) == NDiv(SetSum(f, S), Q(Cardinality(S), 1))

\* C3: calculate_errors has an entry exactly for the requested columns present
\* in both DataFrames; over the retained samples its entry holds the mean and
\* the maximum of |sim-ref|/|ref|, the mean square and the maximum of
\* |sim-ref| and the means of the two series; for reference [10, 20, 30] and
\* simulation [11, 19, 33] the relative errors are [0.1, 0.05, 0.1], the
\* maximum is 0.1 and the mean is 0.25/3.
C3_CalculateErrors ==
    pcA \in {"errors", "done"} =>
        /\ DOMAIN errors =
             {c \in SeqRange(columns) : c \in DOMAIN ref_data /\ c \in DOMAIN sim_data}
        /\ \A c \in DOMAIN errors :
             LET r == ref_data[c]
                 s == sim_data[c]
                 R == Retained(r, unit)
                 e == errors[c]
                 rel == RelErrs(r, s)
                 abserr == AbsErrs(r, s)
                 sq == [i \in 1..Len(r) |-> NMul(abserr[i], abserr[i])]
             IN  /\ (R # {} /\ \A i \in R : IsNum(s[i])) =>
                      /\ e.mean_relative_error = MeanOver(rel, R)
                      /\ IsMaxOver(e.max_relative_error, rel, R)
                      /\ e.rms_error_sq = MeanOver(sq, R)
                      /\ IsMaxOver(e.max_absolute_error, abserr, R)
                      /\ e.mean_reference = MeanOver(r, R)
                      /\ e.mean_simulation = MeanOver(s, R)
                 /\ (r = ExampleRef /\ s = ExampleSim /\ unit = "one") =>
                      /\ rel = <<Q(1, 10), Q(1, 20), Q(1, 10)>>
                      /\ e.max_relative_error = Q(1, 10)
                      /\ e.mean_relative_error = NDiv(Q(25, 100), Q(3, 1))

\* the worked example has been computed, and the requested power column,
\* missing from the simulation, has no entry
C3_Witness ==
    /\ pcA = "errors"
    /\ ref_data["QP_1e12_erg"] = ExampleRef
    /\ sim_data["QP_1e12_erg"] = ExampleSim
    /\ unit = "one"
    /\ columns = <<"QP_1e12_erg", "power_relative">>
    /\ "power_relative" \in DOMAIN ref_data
    /\ "power_relative" \notin DOMAIN sim_data
    /\ DOMAIN errors = {"QP_1e12_erg"}
    /\ errors["QP_1e12_erg"].max_relative_error = Q(1, 10)

\* the elements of s whose index is in S, in order
Pick(s, S) ==
    LET In(i) == i \in S
        idx == SelectSeq([i \in 1..Len(s) |-> i], In)
    IN  [j \in 1..Len(idx) |-> s[idx[j]]]

\* the samples calculate_metrics keeps: both values finite, reference not 0
Clean(ref_vals, sim_vals) ==
    {i \in 1..Len(ref_vals) : IsNum(ref_vals[i]) /\ IsNum(sim_vals[i]) /\ ref_vals[i].n # 0}

\* C4: a sample whose reference magnitude is at or below the floor takes no
\* part in any metric (the metrics are those of the retained samples alone),
\* no retained sample gives undefined metrics, and the sample count that
\* calculate_metrics reports is the number of retained samples.
C4_FloorFilter ==
    /\ pcA \in {"errors", "done"} =>
         \A c \in DOMAIN errors :
            LET r == ref_data[c]
                s == sim_data[c]
                R == Retained(r, unit)
            IN  /\ errors[c] = ColumnErrors(Pick(r, R), Pick(s, R), unit)
                /\ (R # {} /\ \A i \in R : IsNum(s[i])) =>
                      IsMaxOver(errors[c].max_relative_error, RelErrs(r, s), R)
                /\ R = {} =>
                      /\ IsNaN(errors[c].mean_relative_error)
                      /\ IsNaN(errors[c].max_relative_error)
                      /\ IsNaN(errors[c].rms_error_sq)
                      /\ IsNaN(errors[c].max_absolute_error)
    /\ pcA = "done" =>
         LET r == ref_data["QP_1e12_erg"]
             s == sim_data["QP_1e12_erg"]
             R == Clean(r, s)
         IN  /\ metrics.points_compared = Cardinality(R)
             /\ metrics = calculate_metrics(Pick(r, R), Pick(s, R))
             /\ R # {} => IsMaxOver(metrics.max_abs_error, AbsErrs(r, s), R)
             /\ R = {} =>
                   /\ IsNaN(metrics.max_rel_error)
                   /\ IsNaN(metrics.mean_rel_error)
                   /\ IsNaN(metrics.max_abs_error)

\* a reference sample of 0 beside one above the floor: only the second one
\* is measured, and one sample is counted
C4_Witness ==
    /\ pcA = "done"
    /\ unit = "eps"
    /\ ref_data["QP_1e12_erg"] = <<Q(0, 1), Q(2, 1)>>
    /\ sim_data["QP_1e12_erg"] = <<Q(3, 1), Q(3, 1)>>
    /\ errors["QP_1e12_erg"].max_relative_error = Q(1, 2)
    /\ metrics.points_compared = 1

-----------------------------------------------------------------------------
(* Common-grid alignment of two loaded datasets.                           *)

\* the variables of the metric engines, unused
IdleA ==
    /\ pcA = "idle"
    /\ unit = "one"
    /\ ref_data = NoResult
    /\ sim_data = NoResult
    /\ columns = <<>>
    /\ errors = NoResult
    /\ metrics = NoResult

\* largest key enumerated
MaxKey == 3

\* largest number of records of an enumerated dataset
MaxRows == 3

\* ascending key columns of 2..MaxRows distinct keys among 0..MaxKey
KeyColumns ==
    {k \in UNION {[1..n -> {Q(v, 1) : v \in 0..MaxKey}] : n \in 2..MaxRows} :
        \A i \in 1..(Len(k) - 1) : NLt(k[i], k[i + 1])}

\* a dataset longer than the cap: keys 0..GridCap
LongKeys == [i \in 1..(GridCap + 1) |-> Q(i - 1, 1)]

\* the value column of a dataset: a ramp over its keys, or a constant
ValueColumn(keys, shape) ==
    [i \in 1..Len(keys) |-> IF shape = "ramp" THEN NMul(Q(10, 1), keys[i]) ELSE Q(5, 1)]

\* a loaded dataset: the key column, one value column and optional others
Loaded(keys, shape, extra) ==
    LET base == [c \in {"time_microsec", "QP_1e12_erg"} |->
                    IF c = "time_microsec" THEN keys ELSE ValueColumn(keys, shape)]
    IN  IF extra = "none" THEN base
        ELSE [c \in DOMAIN base \cup {IF extra = "power" THEN "power_relative" ELSE "note"} |->
                IF c \in DOMAIN base THEN base[c]
                ELSE IF extra = "text" THEN [i \in 1..Len(keys) |-> Text]
                ELSE [i \in 1..Len(keys) |-> Q(7, 1)]]

InitG ==
    /\ IdleA
    /\ IdleM
    /\ IdleT
    /\ IdleK
    /\ IdleP
    /\ IdleB
    /\ IdleS
    /\ pcG = "raw"
    /\ g_ref \in {Loaded(k, shape, extra) :
                    k \in KeyColumns, shape \in {"ramp", "flat"},
                    extra \in {"none", "text", "number"}}
                 \cup {Loaded(LongKeys, "ramp", "none")}
    /\ g_sim \in {Loaded(k, shape, extra) :
                    k \in KeyColumns, shape \in {"ramp", "flat"},
                    extra \in {"none", "text", "number", "power"}}
                 \cup {Loaded(LongKeys, "ramp", "none")}
    /\ ref_interp = NoResult
    /\ sim_interp = NoResult

Interpolate ==
    /\ pcG = "raw"
    /\ LET pair == interpolate_to_common_grid(g_ref, g_sim, "time_microsec")
       IN  /\ ref_interp' = pair[1]
           /\ sim_interp' = pair[2]
    /\ pcG' = "aligned"
    /\ UNCHANGED <<g_ref, g_sim>>
    /\ UNCHANGED <<varsA, varsM, varsT, varsK, varsP, varsB, varsS>>

NextG == Interpolate

SpecGrid == InitG /\ [][NextG]_vars

-----------------------------------------------------------------------------
(* Properties of the common-grid alignment.                                *)

LowKey(df) ==
    CHOOSE k \in SeqRange(df["time_microsec"]) :
        \A o \in SeqRange(df["time_microsec"]) : NLe(k, o)

HighKey(df) ==
    CHOOSE k \in SeqRange(df["time_microsec"]) :
        \A o \in SeqRange(df["time_microsec"]) : NLe(o, k)

\* the overlap [OverlapLow, OverlapHigh] of the two key ranges
OverlapLow == IF NLt(LowKey(g_ref), LowKey(g_sim)) THEN LowKey(g_sim) ELSE LowKey(g_ref)

OverlapHigh == IF NLt(HighKey(g_ref), HighKey(g_sim)) THEN HighKey(g_ref) ELSE HighKey(g_sim)

\* C9 (as claimed): when the key ranges do not intersect, or intersect in a
\* single point, the aligned pair is empty.
C9_EmptyOverlapClaim ==
    (pcG = "aligned" /\ ~NLt(OverlapLow, OverlapHigh)) =>
        /\ Len(ref_interp["time_microsec"]) = 0
        /\ Len(sim_interp["time_microsec"]) = 0

\* C10: when the key ranges overlap, both aligned DataFrames have exactly
\* M = min(len(reference), len(simulation), 100) records in every column and
\* the same key column, which ascends from the low end of the overlap to its
\* high end; every other column of the aligned simulation is a numeric
\* column of the simulation that the reference has too.
C10_CommonGrid ==
    (pcG = "aligned" /\ NLe(OverlapLow, OverlapHigh)) =>
        LET a == Len(g_ref["time_microsec"])
            b == Len(g_sim["time_microsec"])
            M == IF a <= b /\ a <= 100 THEN a ELSE IF b <= 100 THEN b ELSE 100
            grid == ref_interp["time_microsec"]
        IN  /\ \A c \in DOMAIN ref_interp : Len(ref_interp[c]) = M
            /\ \A c \in DOMAIN sim_interp : Len(sim_interp[c]) = M
            /\ sim_interp["time_microsec"] = grid
            /\ grid[1] = OverlapLow
            /\ grid[M] = OverlapHigh
            /\ \A i \in 1..(M - 1) :
                  /\ NLe(grid[i], grid[i + 1])
                  /\ NLt(OverlapLow, OverlapHigh) => NLt(grid[i], grid[i + 1])
            /\ \A c \in DOMAIN sim_interp \ {"time_microsec"} :
                  /\ c \in DOMAIN g_ref
                  /\ c \in DOMAIN g_sim
                  /\ \A i \in 1..b : g_sim[c][i].k # "str"

\* two datasets of 101 records each are aligned on 100 grid points
C10_Witness ==
    /\ pcG = "aligned"
    /\ Len(g_ref["time_microsec"]) = 101
    /\ Len(g_sim["time_microsec"]) = 101
    /\ Len(ref_interp["time_microsec"]) = 100
    /\ Len(sim_interp["QP_1e12_erg"]) = 100
    /\ ref_interp["time_microsec"][100] = Q(100, 1)

-----------------------------------------------------------------------------
(* validate_results.py: generate_validation_report and main                *)

SpatialColumns ==
    <<"density_g_cm3", "temperature_keV", "pressure_megabars", "internal_energy_1e12_erg_g">>

\* {**time_errors, **spatial_errors}
Merge(f, g) == [k \in DOMAIN f \cup DOMAIN g |-> IF k \in DOMAIN g THEN g[k] ELSE f[k]]

\* available_time_cols and available_spatial_cols, in the order of cols
Available(cols, ref, sim) ==
    LET Both(c) == c \in DOMAIN ref /\ c \in DOMAIN sim
    IN  SelectSeq(cols, Both)

\* the verdict part of the report: the count line, the headline and the
\* quantities listed in the conclusions
generate_validation_report(te, se) ==
    LET all_errors == Merge(te, se)
        max_errors == [k \in DOMAIN all_errors |-> all_errors[k].max_relative_error]
        passing == Cardinality({k \in DOMAIN max_errors : NLt(max_errors[k], Q(1, 100))})
        total == Cardinality(DOMAIN max_errors)
    IN  [written |-> TRUE,
         passing |-> passing,
         total |-> total,
         passed |-> passing = total,
         discrepancies |->
            IF passing = total THEN {}
            ELSE {k \in DOMAIN max_errors : NGe(max_errors[k], Q(1, 100))}]

MainPassing_AtThreshold(all_errors) ==
    Cardinality({k \in DOMAIN all_errors : NLe(all_errors[k].max_relative_error, Q(1, 100))})

\* passing = sum(1 for v in all_errors.values() if v['max_relative_error'] < 0.01)
MainPassing(all_errors) ==
    Cardinality({k \in DOMAIN all_errors : NLt(all_errors[k].max_relative_error, Q(1, 100))})

\* step 1: a missing reference file ends main with 1
Step1_LoadReference ==
    /\ pcM = "step1"
    /\ IF disk.ref_time = Missing \/ disk.ref_spatial = Missing
       THEN /\ exit_code' = 1
            /\ pcM' = "exit"
            /\ UNCHANGED <<ref_time, ref_spatial>>
       ELSE /\ ref_time' = disk.ref_time
            /\ ref_spatial' = disk.ref_spatial
            /\ pcM' = "step2"
            /\ UNCHANGED exit_code
    /\ UNCHANGED <<disk, sim_time, sim_spatial, time_errors, spatial_errors, report>>
    /\ UNCHANGED <<varsA, varsG, varsT, varsK, varsP, varsB, varsS>>

\* step 2: a missing simulation output ends main with 1; a missing spatial
\* profile only sets sim_spatial to None
Step2_LoadSimulation ==
    /\ pcM = "step2"
    /\ IF disk.sim_time = Missing
       THEN /\ exit_code' = 1
            /\ pcM' = "exit"
            /\ UNCHANGED <<sim_time, sim_spatial>>
       ELSE /\ sim_time' = disk.sim_time
            /\ sim_spatial' = disk.sim_spatial
            /\ pcM' = "step3"
            /\ UNCHANGED exit_code
    /\ UNCHANGED <<disk, ref_time, ref_spatial, time_errors, spatial_errors, report>>
    /\ UNCHANGED <<varsA, varsG, varsT, varsK, varsP, varsB, varsS>>

\* the metrics of two loaded datasets: alignment, available columns, errors
Compare(ref, sim, x_col, cols) ==
    LET pair == interpolate_to_common_grid(ref, sim, x_col)
    IN  calculate_errors(pair[1], pair[2], Available(cols, pair[1], pair[2]), "one")

\* steps 3 and 4 (the plots do not change the verdict)
Step3_CompareTime ==
    /\ pcM = "step3"
    /\ time_errors' = Compare(ref_time, sim_time, "time_microsec", TimeColumns)
    /\ pcM' = "step5"
    /\ UNCHANGED <<disk, ref_time, ref_spatial, sim_time, sim_spatial, spatial_errors,
                   report, exit_code>>
    /\ UNCHANGED <<varsA, varsG, varsT, varsK, varsP, varsB, varsS>>

\* steps 5 and 6: spatial_errors stays {} without a spatial profile
Step5_CompareSpatial ==
    /\ pcM = "step5"
    /\ spatial_errors' =
         IF sim_spatial # Missing
         THEN Compare(ref_spatial, sim_spatial, "radius_cm", SpatialColumns)
         ELSE NoResult
    /\ pcM' = "step7"
    /\ UNCHANGED <<disk, ref_time, ref_spatial, sim_time, sim_spatial, time_errors,
                   report, exit_code>>
    /\ UNCHANGED <<varsA, varsG, varsT, varsK, varsP, varsB, varsS>>

Step7_GenerateReport ==
    /\ pcM = "step7"
    /\ report' = generate_validation_report(time_errors, spatial_errors)
    /\ pcM' = "summary"
    /\ UNCHANGED <<disk, ref_time, ref_spatial, sim_time, sim_spatial, time_errors,
                   spatial_errors, exit_code>>
    /\ UNCHANGED <<varsA, varsG, varsT, varsK, varsP, varsB, varsS>>

\* the summary: return 0 when passing == total, else 1
Summary ==
    /\ pcM = "summary"
    /\ LET all_errors == Merge(time_errors, spatial_errors)
           passing == MainPassing(all_errors)
           total == Cardinality(DOMAIN all_errors)
       IN  exit_code' = IF passing = total THEN 0 ELSE 1
    /\ pcM' = "exit"
    /\ UNCHANGED <<disk, ref_time, ref_spatial, sim_time, sim_spatial, time_errors,
                   spatial_errors, report>>
    /\ UNCHANGED <<varsA, varsG, varsT, varsK, varsP, varsB, varsS>>

\* ---- the input files enumerated

\* largest number of quantities present in both files of a pair
MaxQuantities == 2

\* a two-record column of the reference and of the simulation, by profile
ProfileRef(p) ==
    IF p = "undefined" THEN <<Q(0, 1), Q(0, 1)>> ELSE <<Q(100, 1), Q(100, 1)>>

ProfileSim(p) ==
    IF p = "exact" THEN <<Q(100, 1), Q(100, 1)>>
    ELSE IF p = "boundary" THEN <<Q(100, 1), Q(101, 1)>>
    ELSE IF p = "fail" THEN <<Q(100, 1), Q(110, 1)>>
    ELSE <<Q(1, 1), Q(1, 1)>>

Profiles == {"exact", "boundary", "fail", "undefined"}

\* the key column of a simulation file; the reference keys are 0 and 1
SimKeys(kind) ==
    IF kind = "same" THEN <<Q(0, 1), Q(1, 1)>>
    ELSE IF kind = "wider" THEN <<Q(0, 1), Q(2, 1)>>
    ELSE <<Q(2, 1), Q(3, 1)>>

\* a file: its key column and one column per quantity of the assignment
FileOf(x_col, keys, assign, side) ==
    [c \in {x_col} \cup DOMAIN assign |->
        IF c = x_col THEN keys
        ELSE IF side = "ref" THEN ProfileRef(assign[c]) ELSE ProfileSim(assign[c])]

\* the restriction of an assignment to the columns of cols
Restrict(assign, cols) == [c \in DOMAIN assign \cap SeqRange(cols) |-> assign[c]]

\* the four files holding the quantities of the assignment
DiskOf(assign, kind) ==
    [ref_time    |-> FileOf("time_microsec", SimKeys("same"), Restrict(assign, TimeColumns), "ref"),
     sim_time    |-> FileOf("time_microsec", SimKeys(kind), Restrict(assign, TimeColumns), "sim"),
     ref_spatial |-> FileOf("radius_cm", SimKeys("same"), Restrict(assign, SpatialColumns), "ref"),
     sim_spatial |-> FileOf("radius_cm", SimKeys("same"), Restrict(assign, SpatialColumns), "sim")]

\* a disk with one of its four files removed
Without(d, file) == [f \in DOMAIN d |-> IF f = file THEN Missing ELSE d[f]]

InitM ==
    /\ IdleA
    /\ IdleG
    /\ IdleT
    /\ IdleK
    /\ IdleP
    /\ IdleB
    /\ IdleS
    /\ pcM = "step1"
    /\ \E S \in {T \in SUBSET (SeqRange(TimeColumns) \cup SeqRange(SpatialColumns)) :
                    Cardinality(T) <= MaxQuantities} :
         \E assign \in [S -> Profiles], kind \in {"same", "wider", "disjoint"} :
            \/ disk = DiskOf(assign, kind)
            \/ /\ Cardinality(S) <= 1
               /\ \E file \in DOMAIN DiskOf(assign, kind) :
                     disk = Without(DiskOf(assign, kind), file)
    /\ ref_time = Missing
    /\ ref_spatial = Missing
    /\ sim_time = Missing
    /\ sim_spatial = Missing
    /\ time_errors = NoResult
    /\ spatial_errors = NoResult
    /\ report = NoReport
    /\ exit_code = -1

NextM ==
    \/ Step1_LoadReference
    \/ Step2_LoadSimulation
    \/ Step3_CompareTime
    \/ Step5_CompareSpatial
    \/ Step7_GenerateReport
    \/ Summary

SpecResults == InitM /\ [][NextM]_vars

-----------------------------------------------------------------------------
(* Properties of the verdict of validate_results.                          *)

\* the metrics of all compared quantities
AllErrors == Merge(time_errors, spatial_errors)

\* the maximum relative error of q is a number below 0.01
BelowThreshold(q) ==
    LET e == AllErrors[q].max_relative_error IN IsNum(e) /\ 100 * e.n < e.d

\* the maximum relative error of q is 0.01 or more
MeetsThreshold(q) ==
    LET e == AllErrors[q].max_relative_error
    IN  (IsNum(e) /\ 100 * e.n >= e.d) \/ (e.k = "inf" /\ e.n > 0)

\* the maximum relative error of q is NaN (no sample was retained)
Undefined(q) == IsNaN(AllErrors[q].max_relative_error)

C2_DiscrepanciesClaim ==
    report.written =>
        report.discrepancies = {q \in DOMAIN AllErrors : ~BelowThreshold(q)}

-----------------------------------------------------------------------------
(* Time-series files (output_time_series.csv and the reference traces)     *)

\* a CSV file that exists, with its records
File(rows) == [exists |-> TRUE, rows |-> rows]

\* a record of a time-series file
Row(t, qp, power, alpha, w) ==
    [time_microsec |-> t, QP_1e12_erg |-> qp, power_relative |-> power,
     alpha_1_microsec |-> alpha, W_dimensionless |-> w]

\* a reference record at time t: every quantity 100 ("plain"), no energy yet
\* ("start"), or no power and a negative alpha ("shutdown")
RefRow(t, p) ==
    IF p = "start" THEN Row(t, Q(0, 1), Q(100, 1), Q(100, 1), Q(100, 1))
    ELSE IF p = "shutdown" THEN Row(t, Q(100, 1), Q(0, 1), Q(-100, 1), Q(100, 1))
    ELSE Row(t, Q(100, 1), Q(100, 1), Q(100, 1), Q(100, 1))

\* a simulation record at time t: one quantity off the plain reference by
\* the given percentage, an unreadable QP entry ("bad"), an empty alpha
\* entry ("missing"), or no energy yet as in the reference ("start")
SimRow(t, p) ==
    IF p = "start" THEN Row(t, Q(0, 1), Q(100, 1), Q(100, 1), Q(100, 1))
    ELSE IF p = "qp4" THEN Row(t, Q(104, 1), Q(100, 1), Q(100, 1), Q(100, 1))
    ELSE IF p = "qp5" THEN Row(t, Q(105, 1), Q(100, 1), Q(100, 1), Q(100, 1))
    ELSE IF p = "qp10" THEN Row(t, Q(110, 1), Q(100, 1), Q(100, 1), Q(100, 1))
    ELSE IF p = "alpha10" THEN Row(t, Q(100, 1), Q(100, 1), Q(110, 1), Q(100, 1))
    ELSE IF p = "w20" THEN Row(t, Q(100, 1), Q(100, 1), Q(100, 1), Q(120, 1))
    ELSE IF p = "bad" THEN Row(t, Text, Q(100, 1), Q(100, 1), Q(100, 1))
    ELSE IF p = "missing" THEN Row(t, Q(100, 1), Q(100, 1), NaN, Q(100, 1))
    ELSE Row(t, Q(100, 1), Q(100, 1), Q(100, 1), Q(100, 1))

\* largest number of records of an enumerated time-series file
MaxPoints == 2

\* the time series of at most n records of R, in time order
TablesOver(R, n) ==
    {s \in UNION {[1..m -> R] : m \in 0..n} :
        \A i \in 1..(Len(s) - 1) : NLt(s[i].time_microsec, s[i + 1].time_microsec)}

-----------------------------------------------------------------------------
(* validate_simulation.py: validate_time_evolution                         *)

\* |t_sim - t_ref|
TimeDistance(t_sim, t_ref) == NAbs(NSub(t_sim, t_ref))

\* the rows argsort()[:1] may put first: those at the smallest distance
\* (the default sort is not stable, so a tie may go to either row)
ClosestRows(sim, t_ref) ==
    {j \in 1..Len(sim) :
        \A o \in 1..Len(sim) :
            NLe(TimeDistance(sim[j].time_microsec, t_ref),
                TimeDistance(sim[o].time_microsec, t_ref))}

\* a variant of the tolerance test that also skips a distance of exactly 0.1
TimesClose_Below(t_sim, t_ref) == NLt(TimeDistance(t_sim, t_ref), Q(1, 10))

\* the times are within 0.1 microseconds: not (abs(t_sim - t_ref) > 0.1)
TimesClose(t_sim, t_ref) == ~NGt(TimeDistance(t_sim, t_ref), Q(1, 10))

\* abs(sim - ref) / ref * 100
PercentOfRef(sim_val, ref_val) ==
    NMul(NDiv(NAbs(NSub(sim_val, ref_val)), ref_val), Q(100, 1))

\* the dictionary appended to results for a matched pair of rows
ComparedPoint(ref_row, sim_row) ==
    [time        |-> ref_row.time_microsec,
     qp_ref      |-> ref_row.QP_1e12_erg,
     qp_sim      |-> sim_row.QP_1e12_erg,
     qp_error    |-> PercentOfRef(sim_row.QP_1e12_erg, ref_row.QP_1e12_erg),
     power_ref   |-> ref_row.power_relative,
     power_sim   |-> sim_row.power_relative,
     power_error |-> IF NGt(ref_row.power_relative, Q(0, 1))
                     THEN PercentOfRef(sim_row.power_relative, ref_row.power_relative)
                     ELSE Q(0, 1),
     alpha_ref   |-> ref_row.alpha_1_microsec,
     alpha_sim   |-> sim_row.alpha_1_microsec,
     alpha_error |-> PercentOfRef(sim_row.alpha_1_microsec, ref_row.alpha_1_microsec)]

\* Series.max of pandas: NaN entries are skipped, NaN if none is left
SeriesMax(s) ==
    LET Known(x) == ~IsNaN(x)
        kept == SelectSeq(s, Known)
    IN  IF Len(kept) = 0 THEN NaN ELSE NMax(kept)

\* the (error column, threshold in percent) pairs of the assessment
quantities == <<[col |-> "qp_error", threshold |-> Q(2, 1)],
                [col |-> "power_error", threshold |-> Q(5, 1)],
                [col |-> "alpha_error", threshold |-> Q(1, 1)]>>

\* all_pass: every quantity is EXCELLENT or GOOD, i.e. its largest error is
\* at most twice its threshold
AllPass(df_results) ==
    \A q \in 1..Len(quantities) :
        LET max_err == SeriesMax([i \in 1..Len(df_results) |-> df_results[i][quantities[q].col]])
        IN  NLe(max_err, NMul(quantities[q].threshold, Q(2, 1)))

\* a missing input file makes the function return None
LoadTimeEvolution ==
    /\ pcT = "load"
    /\ IF ref_file.exists /\ sim_file.exists
       THEN /\ pcT' = "match"
            /\ t_index' = 1
            /\ UNCHANGED returned
       ELSE /\ pcT' = "returned"
            /\ returned' = "None"
            /\ UNCHANGED t_index
    /\ UNCHANGED <<ref_file, sim_file, results>>
    /\ UNCHANGED <<varsA, varsG, varsM, varsK, varsP, varsB, varsS>>

\* one pass of the loop over the reference rows
MatchRow ==
    /\ pcT = "match"
    /\ t_index <= Len(ref_file.rows)
    /\ LET ref_row == ref_file.rows[t_index]
       IN  IF Len(sim_file.rows) = 0
           THEN UNCHANGED results
           ELSE \E j \in ClosestRows(sim_file.rows, ref_row.time_microsec) :
                   LET sim_match == sim_file.rows[j]
                   IN  results' =
                         IF TimesClose(sim_match.time_microsec, ref_row.time_microsec)
                         THEN Append(results, ComparedPoint(ref_row, sim_match))
                         ELSE results
    /\ t_index' = t_index + 1
    /\ UNCHANGED <<pcT, ref_file, sim_file, returned>>
    /\ UNCHANGED <<varsA, varsG, varsM, varsK, varsP, varsB, varsS>>

\* after the loop: None without a compared point, else the assessment
Assess ==
    /\ pcT = "match"
    /\ t_index > Len(ref_file.rows)
    /\ returned' = IF results = <<>> THEN "None"
                   ELSE IF AllPass(results) THEN "all_pass" ELSE "not_all_pass"
    /\ pcT' = "returned"
    /\ UNCHANGED <<ref_file, sim_file, t_index, results>>
    /\ UNCHANGED <<varsA, varsG, varsM, varsK, varsP, varsB, varsS>>

\* the reference and simulation keys of the worked example
ExampleRefFile ==
    File(<<RefRow(Q(0, 1), "plain"), RefRow(Q(132, 1), "plain"), RefRow(Q(300, 1), "plain")>>)

ExampleSimFile ==
    File(<<SimRow(Q(1, 20), "exact"), SimRow(Q(1319, 10), "qp4"), SimRow(Q(500, 1), "exact")>>)

RefTimes == {Q(0, 1), Q(132, 1), Q(300, 1)}

InitT ==
    /\ IdleA
    /\ IdleG
    /\ IdleM
    /\ IdleK
    /\ IdleP
    /\ IdleB
    /\ IdleS
    /\ pcT = "load"
    /\ ref_file \in {File(s) : s \in TablesOver({RefRow(t, p) : t \in RefTimes,
                                                  p \in {"plain", "start", "shutdown"}},
                                                 MaxPoints)}
                    \cup {ExampleRefFile, NoFile}
    /\ sim_file \in {File(s) : s \in TablesOver({SimRow(t, p) :
                                                    t \in {Q(1, 20), Q(1319, 10), Q(1321, 10), Q(1323, 10)},
                                                    p \in {"exact", "qp4", "qp5"}},
                                                 MaxPoints)}
                    \cup {ExampleSimFile, NoFile}
    /\ t_index = 0
    /\ results = <<>>
    /\ returned = "pending"

NextT ==
    \/ LoadTimeEvolution
    \/ MatchRow
    \/ Assess

SpecTimeEvol == InitT /\ [][NextT]_vars

-----------------------------------------------------------------------------
(* Properties of validate_time_evolution.                                  *)

\* the smallest distance of a simulation time from the time of reference row i
SmallestDistance(i) ==
    LET Dist(j) == TimeDistance(sim_file.rows[j].time_microsec,
                                ref_file.rows[i].time_microsec)
    IN  Dist(CHOOSE j \in 1..Len(sim_file.rows) :
                \A o \in 1..Len(sim_file.rows) : NLe(Dist(j), Dist(o)))

\* the reference rows already visited that have a simulation row within 0.1
VisitedWithin ==
    LET Near(i) == /\ i < t_index
                   /\ Len(sim_file.rows) > 0
                   /\ NLe(SmallestDistance(i), Q(1, 10))
    IN  SelectSeq([i \in 1..Len(ref_file.rows) |-> i], Near)

\* C8: the compared points are, in order, the reference rows whose smallest
\* distance from a simulation time is at most the tolerance (0.1), each
\* with the values of a simulation row at that smallest distance; for
\* reference keys [0, 132, 300] and simulation keys [0.05, 131.9, 500] the
\* points 0 and 132 are retained and 300 is excluded.
C8_NearestMatch ==
    (pcT \in {"match", "returned"} /\ ref_file.exists /\ sim_file.exists) =>
        /\ Len(results) = Len(VisitedWithin)
        /\ \A k \in 1..Len(results) :
              LET i == VisitedWithin[k]
              IN  /\ results[k].time = ref_file.rows[i].time_microsec
                  /\ results[k].qp_ref = ref_file.rows[i].QP_1e12_erg
                  /\ \E j \in 1..Len(sim_file.rows) :
                        /\ TimeDistance(sim_file.rows[j].time_microsec,
                                        ref_file.rows[i].time_microsec) = SmallestDistance(i)
                        /\ results[k].qp_sim = sim_file.rows[j].QP_1e12_erg
                        /\ results[k].power_sim = sim_file.rows[j].power_relative
                        /\ results[k].alpha_sim = sim_file.rows[j].alpha_1_microsec
        /\ (pcT = "returned" /\ ref_file = ExampleRefFile /\ sim_file = ExampleSimFile) =>
              [k \in 1..Len(results) |-> results[k].time] = <<Q(0, 1), Q(132, 1)>>

\* the worked example has been matched: t = 132 is paired with the row at
\* 131.9 (distance exactly 0.1) and t = 300 is left out
C8_Witness ==
    /\ pcT = "returned"
    /\ ref_file = ExampleRefFile
    /\ sim_file = ExampleSimFile
    /\ Len(results) = 2
    /\ results[2].time = Q(132, 1)
    /\ results[2].qp_sim = Q(104, 1)

\* C5 (as claimed): every relative error of a compared point is
\* |sim - ref| / |ref| (in percent) and so is never negative.
C5_NonNegativeClaim ==
    \A k \in 1..Len(results) :
        /\ results[k].qp_ref # Q(0, 1) => NGe(results[k].qp_error, Q(0, 1))
        /\ results[k].power_ref # Q(0, 1) => NGe(results[k].power_error, Q(0, 1))
        /\ results[k].alpha_ref # Q(0, 1) => NGe(results[k].alpha_error, Q(0, 1))

-----------------------------------------------------------------------------
(* validate_geneve10_transient.py: run_check and main                      *)

\* the columns compared by run_check and named in dropna
CheckedColumns == <<"QP_1e12_erg", "power_relative", "alpha_1_microsec", "W_dimensionless">>

\* pd.to_numeric(errors="coerce") on every column: text becomes NaN
Coerced(row) == [c \in DOMAIN row |-> IF row[c].k = "str" THEN NaN ELSE row[c]]

\* a variant of dropna that looks at the time column only
Complete_TimeOnly(row) == ~IsNaN(row["time_microsec"])

\* dropna keeps the rows with a number in the time and the four quantities
Complete(row) ==
    \A c \in {"time_microsec"} \cup SeqRange(CheckedColumns) : ~IsNaN(row[c])

\* _closest_row: idxmin gives the first row at the smallest distance
closest_row(sim, target_time) ==
    LET Dist(j) == NAbs(NSub(sim[j].time_microsec, target_time))
        idx == CHOOSE j \in 1..Len(sim) :
                  /\ \A o \in 1..Len(sim) : NLe(Dist(j), Dist(o))
                  /\ \A o \in 1..(j - 1) : NLt(Dist(j), Dist(o))
    IN  sim[idx]

percentage_error(sim_val, ref_val) ==
    IF NEq(ref_val, Q(0, 1)) THEN Inf(1)
    ELSE NDiv(NAbs(NSub(sim_val, ref_val)), NAbs(ref_val))

\* the tolerance of a compared column
ToleranceOf(a, c) ==
    IF c = "QP_1e12_erg" THEN a.qp_tol
    ELSE IF c = "power_relative" THEN a.power_tol
    ELSE IF c = "alpha_1_microsec" THEN a.alpha_tol
    ELSE a.w_tol

\* a variant of the tolerance test that also rejects an error equal to the
\* tolerance
OverTolerance_AtTolerance(err, tol) == NGe(err, tol)

\* err > tol
OverTolerance(err, tol) == NGt(err, tol)

\* the dictionary appended to rows
SummaryRow(ref_row, sim_row) ==
    [time          |-> ref_row.time_microsec,
     sim_QP        |-> sim_row.QP_1e12_erg,
     ref_QP        |-> ref_row.QP_1e12_erg,
     QP_err_pct    |-> NMul(percentage_error(sim_row.QP_1e12_erg, ref_row.QP_1e12_erg), Q(100, 1)),
     sim_power     |-> sim_row.power_relative,
     ref_power     |-> ref_row.power_relative,
     power_err_pct |-> NMul(percentage_error(sim_row.power_relative, ref_row.power_relative), Q(100, 1)),
     sim_alpha     |-> sim_row.alpha_1_microsec,
     ref_alpha     |-> ref_row.alpha_1_microsec,
     alpha_err_pct |-> NMul(percentage_error(sim_row.alpha_1_microsec, ref_row.alpha_1_microsec), Q(100, 1)),
     sim_W         |-> sim_row.W_dimensionless,
     ref_W         |-> ref_row.W_dimensionless,
     W_err_pct     |-> NMul(percentage_error(sim_row.W_dimensionless, ref_row.W_dimensionless), Q(100, 1))]

\* read_csv of the reference and the time_limit filter; a missing file raises
\* FileNotFoundError, which nothing catches: the process ends with status 1
ReadReference ==
    /\ pcK = "read_ref"
    /\ IF ref_csv.exists
       THEN /\ LET InLimit(row) == NLe(row.time_microsec, args.time_limit)
               IN  k_ref' = SelectSeq(ref_csv.rows, InLimit)
            /\ pcK' = "read_sim"
            /\ UNCHANGED exit_status
       ELSE /\ pcK' = "raised"
            /\ exit_status' = 1
            /\ UNCHANGED k_ref
    /\ UNCHANGED <<ref_csv, sim_csv, args, k_sim, k_index, k_rows, passed>>
    /\ UNCHANGED <<varsA, varsG, varsM, varsT, varsP, varsB, varsS>>

\* read_csv of the simulation output, to_numeric and dropna
ReadSimulation ==
    /\ pcK = "read_sim"
    /\ IF sim_csv.exists
       THEN /\ k_sim' = SelectSeq([i \in 1..Len(sim_csv.rows) |-> Coerced(sim_csv.rows[i])],
                                  Complete)
            /\ k_index' = 1
            /\ pcK' = "loop"
            /\ UNCHANGED exit_status
       ELSE /\ pcK' = "raised"
            /\ exit_status' = 1
            /\ UNCHANGED <<k_sim, k_index>>
    /\ UNCHANGED <<ref_csv, sim_csv, args, k_ref, k_rows, passed>>
    /\ UNCHANGED <<varsA, varsG, varsM, varsT, varsP, varsB, varsS>>

\* one pass of the loop over ref; idxmin of an empty Series raises ValueError
CompareRow ==
    /\ pcK = "loop"
    /\ k_index <= Len(k_ref)
    /\ IF Len(k_sim) = 0
       THEN /\ pcK' = "raised"
            /\ exit_status' = 1
            /\ UNCHANGED <<k_index, k_rows, passed>>
       ELSE LET ref_row == k_ref[k_index]
                sim_row == closest_row(k_sim, ref_row.time_microsec)
            IN  /\ k_rows' = Append(k_rows, SummaryRow(ref_row, sim_row))
                /\ passed' =
                     IF \E c \in SeqRange(CheckedColumns) :
                           OverTolerance(percentage_error(sim_row[c], ref_row[c]),
                                         ToleranceOf(args, c))
                     THEN FALSE ELSE passed
                /\ k_index' = k_index + 1
                /\ UNCHANGED <<pcK, exit_status>>
    /\ UNCHANGED <<ref_csv, sim_csv, args, k_ref, k_sim>>
    /\ UNCHANGED <<varsA, varsG, varsM, varsT, varsP, varsB, varsS>>

\* run_check returns (passed, summary); main prints the table and exits
\* with 1 through sys.exit when the flag is false
ReportAndExit ==
    /\ pcK = "loop"
    /\ k_index > Len(k_ref)
    /\ exit_status' = IF passed THEN 0 ELSE 1
    /\ pcK' = "exit"
    /\ UNCHANGED <<ref_csv, sim_csv, args, k_ref, k_sim, k_index, k_rows, passed>>
    /\ UNCHANGED <<varsA, varsG, varsM, varsT, varsP, varsB, varsS>>

\* the defaults of the command line
DefaultArgs ==
    [time_limit |-> Q(72, 1), qp_tol |-> Q(1, 20), power_tol |-> Q(1, 20),
     alpha_tol |-> Q(1, 10), w_tol |-> Q(1, 10)]

InitK ==
    /\ IdleA
    /\ IdleG
    /\ IdleM
    /\ IdleT
    /\ IdleP
    /\ IdleB
    /\ IdleS
    /\ pcK = "read_ref"
    /\ ref_csv \in {File(s) : s \in TablesOver({RefRow(t, p) : t \in {Q(0, 1), Q(72, 1), Q(100, 1)},
                                                 p \in {"plain", "start"}},
                                                MaxPoints)}
                   \cup {NoFile}
    /\ sim_csv \in {File(s) : s \in TablesOver({SimRow(t, p) : t \in {Q(0, 1), Q(71, 1), Q(73, 1)},
                                                 p \in {"exact", "start", "qp5", "qp10", "alpha10", "w20",
                                                        "bad", "missing"}},
                                                MaxPoints)}
                   \cup {NoFile}
    /\ args \in {DefaultArgs,
                 [DefaultArgs EXCEPT !.qp_tol = Q(1, 10)],
                 [DefaultArgs EXCEPT !.alpha_tol = Q(1, 20), !.w_tol = Q(1, 5)],
                 [DefaultArgs EXCEPT !.time_limit = Q(0, 1)],
                 [DefaultArgs EXCEPT !.time_limit = Q(-1, 1)],
                 [DefaultArgs EXCEPT !.qp_tol = Q(0, 1), !.power_tol = Q(0, 1),
                                     !.alpha_tol = Q(0, 1), !.w_tol = Q(0, 1)]}
    /\ k_ref = <<>>
    /\ k_sim = <<>>
    /\ k_index = 0
    /\ k_rows = <<>>
    /\ passed = TRUE
    /\ exit_status = -1

NextK ==
    \/ ReadReference
    \/ ReadSimulation
    \/ CompareRow
    \/ ReportAndExit

SpecCheck == InitK /\ [][NextK]_vars

-----------------------------------------------------------------------------
(* Properties of the regression check.                                     *)

\* the simulation rows with a number in every needed entry
Usable == {j \in 1..Len(sim_csv.rows) :
              \A c \in {"time_microsec"} \cup SeqRange(CheckedColumns) :
                  sim_csv.rows[j][c].k \notin {"str", "nan"}}

\* the first usable simulation row nearest in time to reference row i
NearestUsable(i) ==
    LET Gap(j) == NAbs(NSub(sim_csv.rows[j].time_microsec, ref_csv.rows[i].time_microsec))
    IN  CHOOSE j \in Usable :
           \A o \in Usable : NLt(Gap(j), Gap(o)) \/ (Gap(j) = Gap(o) /\ j <= o)

\* the relative error of column c of reference row i against its nearest
\* simulation row is strictly greater than the tolerance of c (an error
\* against a zero reference counts as infinite)
Exceeds(i, c) ==
    LET r == ref_csv.rows[i][c]
        v == sim_csv.rows[NearestUsable(i)][c]
        tol == ToleranceOf(args, c)
        diff == NAbs(NSub(v, r))
    IN  IF r.n = 0 THEN TRUE
        ELSE diff.n * tol.d * Abs(r.d) > tol.n * Abs(r.n) * diff.d

\* the reference rows with time <= time_limit
InLimitRows ==
    {i \in 1..Len(ref_csv.rows) : NLe(ref_csv.rows[i].time_microsec, args.time_limit)}

C7_ExcludedBeyondToleranceClaim ==
    \A k \in 1..Len(k_rows) :
        \E j \in 1..Len(k_sim) :
            NLe(NAbs(NSub(k_sim[j].time_microsec, k_rows[k].time)), Q(1, 1))

\* C11: reading a simulation file that exists never raises; an entry that is
\* not a number is coerced to NaN; run_check's table of simulation rows is
\* exactly the fully numeric rows of the file, in order and unchanged, so a
\* row with a NaN in time, QP, power, alpha or W is never the nearest match
\* of a reference row and every fully numeric row stays eligible.
C11_UnusableRowsExcluded ==
    (pcK \in {"loop", "exit", "raised"} /\ ref_csv.exists /\ sim_csv.exists) =>
        /\ k_index >= 1
        /\ LET IsUsable(j) == j \in Usable
               kept == SelectSeq([j \in 1..Len(sim_csv.rows) |-> j], IsUsable)
           IN  k_sim = [n \in 1..Len(kept) |-> sim_csv.rows[kept[n]]]
        /\ \A k \in 1..Len(k_rows) :
              \E j \in Usable :
                 /\ k_rows[k].sim_QP = sim_csv.rows[j].QP_1e12_erg
                 /\ k_rows[k].sim_power = sim_csv.rows[j].power_relative
                 /\ k_rows[k].sim_alpha = sim_csv.rows[j].alpha_1_microsec
                 /\ k_rows[k].sim_W = sim_csv.rows[j].W_dimensionless
                 /\ \A o \in Usable :
                       NLe(NAbs(NSub(sim_csv.rows[j].time_microsec, k_rows[k].time)),
                           NAbs(NSub(sim_csv.rows[o].time_microsec, k_rows[k].time)))
        /\ pcK = "raised" => Usable = {}

\* the simulation row at the time of the reference row has an unreadable
\* QP entry; the reference row is matched with the later, fully numeric row
C11_Witness ==
    /\ pcK = "exit"
    /\ Len(sim_csv.rows) = 2
    /\ sim_csv.rows[1].time_microsec = Q(0, 1)
    /\ sim_csv.rows[1].QP_1e12_erg = Text
    /\ Len(k_sim) = 1
    /\ Len(k_rows) >= 1
    /\ k_rows[1].time = Q(0, 1)
    /\ k_rows[1].sim_QP = sim_csv.rows[2].QP_1e12_erg

\* C12 (as claimed): what validate_results.main returns when an input file
\* is missing differs from the 1 it returns after a failed comparison.
C12_DistinctOutcomeClaim ==
    (pcM = "exit" /\ ~report.written) => exit_code # 1

-----------------------------------------------------------------------------
(* parse_latex_tables.py: strings, clean_latex_number and float            *)
(*                                                                         *)
(* A Python str is modelled as the sequence of its characters, each a      *)
(* one-character string (the non-ASCII bullet U+2022 is written "bullet"). *)
(* A float parsed from text is modelled as an exact *)
(* decimal [k |-> "dec", m, e] standing for m * 10^e, with m not divisible *)
(* by 10 (e = 0 for zero), as [k |-> "nan"], or, when float() raises       *)
(* ValueError, as [k |-> "err"].                                           *)

DigitChars == <<"0", "1", "2", "3", "4", "5", "6", "7", "8", "9">>

\* the whitespace characters of str.strip and of \s
Spaces == {" ", "\t", "\n"}

\* the first position from i on whose character is not in C (Len(s) + 1 if none)
SkipWhile(s, i, C) ==
    CHOOSE j \in i..(Len(s) + 1) :
        /\ \A k \in i..(j - 1) : s[k] \in C
        /\ j = Len(s) + 1 \/ s[j] \notin C

\* str.strip
strip(s) ==
    LET a == SkipWhile(s, 1, Spaces)
        b == CHOOSE j \in 0..Len(s) :
                /\ \A k \in (j + 1)..Len(s) : s[k] \in Spaces
                /\ j = 0 \/ s[j] \notin Spaces
    IN  IF a > Len(s) THEN <<>> ELSE SubSeq(s, a, b)

\* sub in s
Contains(s, sub) ==
    \E i \in 1..(Len(s) - Len(sub) + 1) : SubSeq(s, i, i + Len(sub) - 1) = sub

\* str.replace: every non-overlapping occurrence of old, from the left
replace(s, old, new) ==
    LET n == Len(old)
        Match(i) == i >= 1 /\ i + n - 1 <= Len(s) /\ SubSeq(s, i, i + n - 1) = old
        RECURSIVE Replaced(_)
        \* the occurrence at i is replaced unless it overlaps a replaced one
        Replaced(i) == Match(i) /\ \A j \in (i - n + 1)..(i - 1) : ~Replaced(j)
        starts == {i \in 1..Len(s) : Replaced(i)}
        Piece(p) == IF p \in starts THEN new
                    ELSE IF \E j \in starts : j < p /\ p <= j + n - 1 THEN <<>>
                    ELSE <<s[p]>>
        RECURSIVE Pieces(_, _)
        Pieces(lo, hi) == IF lo > hi THEN <<>>
                          ELSE IF lo = hi THEN Piece(lo)
                          ELSE Pieces(lo, (lo + hi) \div 2)
                               \o Pieces((lo + hi) \div 2 + 1, hi)
    IN  IF starts = {} THEN s ELSE Pieces(1, Len(s))

\* the match of one of the four exponent patterns of clean_latex_number
\* starting at position i: its last position (0 without a match) and the
\* text that replaces it
\*   1: (\d)\s+E\s*([+-]?\d)  ->  \1E\2
\*   2: E\s+([+-]?\d)         ->  E\1
\*   3: E([+-]?\s+\d)         ->  E and group 1 without ' '
\*   4: E\s*(\d)              ->  E+\1
re_match(rule, s, i) ==
    LET At(j) == IF j >= 1 /\ j <= Len(s) THEN s[j] ELSE ""
        IsDigit(c) == c \in SeqRange(DigitChars)
        AfterSign(k) == IF At(k) \in {"+", "-"} THEN k + 1 ELSE k
        none == [end |-> 0, out |-> <<>>]
        e1 == SkipWhile(s, i + 1, Spaces)
        k1 == SkipWhile(s, e1 + 1, Spaces)
        k2 == SkipWhile(s, i + 1, Spaces)
        k3 == AfterSign(i + 1)
        w3 == SkipWhile(s, k3, Spaces)
        NotBlank(c) == c # " "
    IN  IF rule = 1
        THEN IF /\ IsDigit(At(i))
                /\ e1 > i + 1
                /\ At(e1) = "E"
                /\ IsDigit(At(AfterSign(k1)))
             THEN [end |-> AfterSign(k1),
                   out |-> <<s[i], "E">> \o SubSeq(s, k1, AfterSign(k1))]
             ELSE none
        ELSE IF At(i) # "E" THEN none
        ELSE IF rule = 2
        THEN IF k2 > i + 1 /\ IsDigit(At(AfterSign(k2)))
             THEN [end |-> AfterSign(k2), out |-> <<"E">> \o SubSeq(s, k2, AfterSign(k2))]
             ELSE none
        ELSE IF rule = 3
        THEN IF k3 <= Len(s) /\ w3 > k3 /\ IsDigit(At(w3))
             THEN [end |-> w3, out |-> <<"E">> \o SelectSeq(SubSeq(s, i + 1, w3), NotBlank)]
             ELSE none
        ELSE IF IsDigit(At(k2))
             THEN [end |-> k2, out |-> <<"E", "+", s[k2]>>]
             ELSE none

\* re.sub of pattern `rule` on the part of s from position i on
RECURSIVE re_sub(_, _, _)
re_sub(rule, s, i) ==
    IF i > Len(s) THEN <<>>
    ELSE LET m == re_match(rule, s, i)
         IN  IF m.end > 0 THEN m.out \o re_sub(rule, s, m.end + 1)
             ELSE <<s[i]>> \o re_sub(rule, s, i + 1)

clean_latex_number(s) ==
    LET s1 == strip(s)
        s2 == replace(s1, <<"bullet">>, <<".">>)
        s3 == replace(s2, <<"E", " ", "O", "l">>, <<"E", "+", "0", "1">>)
        s4 == replace(s3, <<"E", " ", "O", "O">>, <<"E", "+", "0", "0">>)
        s5 == replace(s4, <<"E", " ", "O", "I">>, <<"E", "+", "0", "1">>)
        s6 == re_sub(1, s5, 1)
        s7 == re_sub(2, s6, 1)
        s8 == re_sub(3, s7, 1)
    IN  IF s1 = <<"-", "0", ".">> THEN <<"0", ".", "0">>
        ELSE re_sub(4, s8, 1)

\* the number a run of decimal digits denotes
RECURSIVE DigitsValue(_)
DigitsValue(ds) ==
    IF Len(ds) = 0 THEN 0
    ELSE 10 * DigitsValue(SubSeq(ds, 1, Len(ds) - 1))
         + (CHOOSE d \in 0..9 : DigitChars[d + 1] = ds[Len(ds)])

\* the decimal m * 10^e without trailing zeros in m
RECURSIVE Dec(_, _)
Dec(m, e) ==
    IF m = 0 THEN [k |-> "dec", m |-> 0, e |-> 0]
    ELSE IF m % 10 = 0 THEN Dec(m \div 10, e + 1)
    ELSE [k |-> "dec", m |-> m, e |-> e]

\* float(s): [sign] digits [. digits] [E|e [sign] digits] with at least one
\* mantissa digit, or [sign] nan; anything else raises ValueError (the
\* spellings of infinity, digit-group underscores and the overflow of an
\* exponent beyond the range of a double do not occur in the texts enumerated)
float(s) ==
    LET t == strip(s)
        At(j) == IF j >= 1 /\ j <= Len(t) THEN t[j] ELSE ""
        digits == SeqRange(DigitChars)
        p == IF At(1) \in {"+", "-"} THEN 2 ELSE 1
        intEnd == SkipWhile(t, p, digits)
        fracStart == IF At(intEnd) = "." THEN intEnd + 1 ELSE intEnd
        fracEnd == SkipWhile(t, fracStart, digits)
        mantissa == SubSeq(t, p, intEnd - 1) \o SubSeq(t, fracStart, fracEnd - 1)
        expSign == IF At(fracEnd + 1) \in {"+", "-"} THEN fracEnd + 2 ELSE fracEnd + 1
        exponent == IF fracEnd > Len(t) THEN 0
                    ELSE (IF At(fracEnd + 1) = "-" THEN -1 ELSE 1)
                         * DigitsValue(SubSeq(t, expSign, Len(t)))
        wellFormed ==
            /\ Len(mantissa) >= 1
            /\ \/ fracEnd > Len(t)
               \/ /\ At(fracEnd) \in {"E", "e"}
                  /\ expSign <= Len(t)
                  /\ \A j \in expSign..Len(t) : t[j] \in digits
    IN  IF p <= Len(t) + 1 /\ SubSeq(t, p, Len(t)) \in {<<"n", "a", "n">>, <<"N", "A", "N">>}
        THEN [k |-> "nan"]
        ELSE IF Len(t) = 0 \/ ~wellFormed THEN [k |-> "err"]
        ELSE Dec((IF At(1) = "-" THEN -1 ELSE 1) * DigitsValue(mantissa),
                 exponent - (fracEnd - fracStart))

\* ---- clean_latex_number and float applied to one fragment

CleanNumber ==
    /\ pcP = "clean"
    /\ cleaned' = clean_latex_number(fragment)
    /\ value' = float(clean_latex_number(fragment))
    /\ pcP' = "done"
    /\ UNCHANGED <<fragment, table_kind, latex_lines, line_no, data, unique_time_data,
                   all_time_data>>
    /\ UNCHANGED <<varsA, varsG, varsM, varsT, varsK, varsB, varsS>>

\* a mantissa, the marker E and a 1-2 digit exponent, with optional
\* whitespace before E, after E and after the sign of the exponent
Exponentials ==
    {m \o w1 \o <<"E">> \o w2 \o sg \o w3 \o x :
        m \in {<<"1", ".", "5">>, <<"1", "5">>, <<"2", ".">>},
        w1 \in {<<>>, <<" ">>, <<" ", " ">>},
        w2 \in {<<>>, <<" ">>, <<"\t">>},
        sg \in {<<>>, <<"+">>, <<"-">>},
        w3 \in {<<>>, <<" ">>},
        x \in {<<"4">>, <<"0", "4">>}}

InitClean ==
    /\ IdleA
    /\ IdleG
    /\ IdleM
    /\ IdleT
    /\ IdleK
    /\ IdleB
    /\ IdleS
    /\ pcP = "clean"
    /\ fragment \in Exponentials
                   \cup {<<"-", "0", ".">>, <<" ", "-", "0", ".", " ">>, <<"-", "0", ".", "0">>,
                         <<"1", ".", "5", "1", "0", "0", "7", "8", "E", " ", "O", "l">>,
                         <<"1", ".", "5", "1", "0", "0", "7", "8", "E", "O", "l">>,
                         <<"4", "bullet", "9", "8", "E", "-", "0", "2">>,
                         <<"2", ".", "4", "0", "0", "0", "0", "0", "E", "0", "2">>}
    /\ cleaned = <<>>
    /\ value = [k |-> "err"]
    /\ table_kind = "time"
    /\ latex_lines = <<>>
    /\ line_no = 0
    /\ data = <<>>
    /\ unique_time_data = <<>>
    /\ all_time_data = <<>>

SpecClean == InitClean /\ [][CleanNumber]_vars

\* C17 (as claimed): for a mantissa, E and a 1-2 digit exponent with
\* optional whitespace around E and inside the exponent, the cleaned text is
\* the input without its whitespace, with '+' inserted after E exactly when
\* the exponent had no sign.
C17_ExponentNormalizedClaim ==
    (pcP = "done" /\ fragment \in Exponentials) =>
        LET NotSpace(c) == c \notin Spaces
            squeezed == SelectSeq(fragment, NotSpace)
            e == CHOOSE i \in 1..Len(squeezed) : squeezed[i] = "E"
        IN  cleaned = IF squeezed[e + 1] \in {"+", "-"} THEN squeezed
                      ELSE SubSeq(squeezed, 1, e) \o <<"+">>
                           \o SubSeq(squeezed, e + 1, Len(squeezed))

-----------------------------------------------------------------------------
(* parse_latex_tables.py: parse_time_series_table and parse_spatial_table  *)

\* [p.strip() for p in line.split('&')] without the empty parts
split_parts(line) ==
    LET IsSep(i) == line[i] = "&"
        seps == SelectSeq([i \in 1..Len(line) |-> i], IsSep)
        cuts == <<0>> \o seps \o <<Len(line) + 1>>
        NotEmpty(p) == Len(p) > 0
    IN  SelectSeq([n \in 1..(Len(cuts) - 1) |->
                      strip(SubSeq(line, cuts[n] + 1, cuts[n + 1] - 1))],
                  NotEmpty)

\* a variant of first_six that converts every reconstructed string
first_six_OfAll(reconstructed) ==
    LET values == [j \in 1..Len(reconstructed) |-> float(reconstructed[j])]
    IN  IF Len(reconstructed) >= 6 /\ \A j \in 1..Len(values) : values[j].k # "err"
        THEN <<values>> ELSE <<>>

\* lines 131-137: with 6 or more reconstructed strings the first 6 are
\* converted and appended as one row; a ValueError skips the line
first_six(reconstructed) ==
    LET values == [j \in 1..6 |-> float(reconstructed[j])]
    IN  IF Len(reconstructed) >= 6 /\ \A j \in 1..6 : values[j].k # "err"
        THEN <<values>> ELSE <<>>

\* the rows (none or one) parse_time_series_table appends for one line
time_series_row(raw) ==
    LET line == strip(raw)
        skipped ==
            \/ Len(line) = 0
            \/ \E w \in {<<"\\", "h", "l", "i", "n", "e">>,
                       <<"\\", "e", "n", "d", "{">>,
                       <<"\\", "b", "e", "g", "i", "n", "{">>,
                       <<"T", "I", "M", "E">>,
                       <<"G", "E", "N", "E", "V", "E">>,
                       <<"D", "U", "M", "P">>, <<"H", "A", "L", "V", "E">>,
                       <<"L", "I", "G", "H", "T">>,
                       <<"S", "E", "N", "S", "E">>,
                       <<"\\", "m", "u", "l", "t", "i", "c", "o", "l", "u", "m", "n">>,
                       <<"\\", "m", "u", "l", "t", "i", "r", "o", "w">>,
                       <<"T", "O", "T", "A", "L">>,
                       <<"C", "H", "E", "C", "K">>,
                       <<"E", "R", "R", "O", "R">>} : Contains(line, w)
        parts == split_parts(strip(replace(replace(line, <<"\\", "\\">>, <<>>),
                                           <<"\\", "h", "l", "i", "n", "e">>, <<>>)))
        IsDigit(c) == c \in SeqRange(DigitChars)
        TwoDigits(j) ==
            /\ j <= Len(parts)
            /\ Len(strip(parts[j])) = 2
            /\ \A n \in 1..2 : IsDigit(strip(parts[j])[n])
        RECURSIVE reconstructed(_)
        \* the strings appended from position i on; the third branch of the
        \* source (a part matching ^\d+\.\d+E) is never taken, because every
        \* part containing E is handled by the second branch
        reconstructed(i) ==
            IF i > Len(parts) THEN <<>>
            ELSE LET part == strip(parts[i])
                 IN  IF Len(part) <= 2 /\ \A n \in 1..Len(part) : IsDigit(part[n])
                     THEN IF i + 1 <= Len(parts) /\ parts[i + 1][1] = "."
                          THEN IF TwoDigits(i + 2)
                               THEN <<clean_latex_number(part \o parts[i + 1] \o parts[i + 2])>>
                                    \o reconstructed(i + 3)
                               ELSE <<clean_latex_number(part \o parts[i + 1])>>
                                    \o reconstructed(i + 2)
                          ELSE reconstructed(i + 1)
                     ELSE IF part[1] = "." \/ Contains(part, <<"E">>) \/ Contains(part, <<"e">>)
                     THEN LET combined == IF TwoDigits(i + 1) THEN part \o parts[i + 1] ELSE part
                              completed == IF combined[1] = "." THEN <<"2">> \o combined
                                           ELSE combined
                          IN  <<clean_latex_number(completed)>>
                              \o reconstructed(IF TwoDigits(i + 1) THEN i + 2 ELSE i + 1)
                     ELSE <<clean_latex_number(part)>> \o reconstructed(i + 1)
    IN  IF skipped THEN <<>> ELSE first_six(reconstructed(1))

\* the rows (none or one) parse_spatial_table appends for one line
spatial_row(raw) ==
    LET line == strip(raw)
        skipped ==
            \/ Len(line) = 0
            \/ \E w \in {<<"\\", "h", "l", "i", "n", "e">>,
                       <<"\\", "e", "n", "d", "{">>,
                       <<"\\", "b", "e", "g", "i", "n", "{">>,
                       <<"D", "E", "N", "S", "I", "T", "Y">>,
                       <<"R", "A", "D", "I", "U", "S">>,
                       <<"V", "E", "L", "O", "C", "I", "T", "Y">>,
                       <<"P", "R", "E", "S", "S", "U", "R", "E">>,
                       <<"E", "N", "E", "R", "G", "Y">>,
                       <<"T", "E", "M", "P", "E", "R", "A", "T", "U", "R", "E">>,
                       <<"G", "E", "N", "E", "V", "E">>,
                       <<"T", "O", "T", "A", "L">>,
                       <<"K", "I", "N", "E", "T", "I", "C">>,
                       <<"C", "H", "E", "C", "K">>,
                       <<"\\", "m", "u", "l", "t", "i", "c", "o", "l", "u", "m", "n">>,
                       <<"\\", "m", "u", "l", "t", "i", "r", "o", "w">>,
                       <<"\\", "c", "a", "p", "t", "i", "o", "n">>} : Contains(line, w)
        unformatted == strip(replace(replace(replace(line, <<"\\", "\\">>, <<>>),
                                             <<"\\", "h", "l", "i", "n", "e">>, <<>>),
                                     <<"$">>, <<>>))
        parts == split_parts(replace(unformatted,
                                     <<"\\", "m", "a", "t", "h", "r", "m", "{", "E", "}">>,
                                     <<"E">>))
        TwoDigits(j) ==
            /\ j <= Len(parts)
            /\ Len(strip(parts[j])) = 2
            /\ \A n \in 1..2 : strip(parts[j])[n] \in SeqRange(DigitChars)
        RECURSIVE values(_, _)
        \* the values appended from position i on when n are there already
        values(i, n) ==
            IF i > Len(parts) \/ n >= 6 THEN <<>>
            ELSE IF TwoDigits(i + 1)
                 THEN <<float(clean_latex_number(parts[i]) \o strip(parts[i + 1]))>>
                      \o values(i + 2, n + 1)
                 ELSE <<float(clean_latex_number(parts[i]))>> \o values(i + 1, n + 1)
        row == values(1, 0)
    IN  IF skipped \/ Len(parts) < 6 THEN <<>>
        ELSE IF Len(row) = 6 /\ \A j \in 1..6 : row[j].k # "err" THEN <<row>>
        ELSE <<>>

\* a variant of the loop body in which a line without a row discards the
\* rows collected so far
parse_line_Fatal(kind, rows, line) ==
    LET new == IF kind = "time" THEN time_series_row(line) ELSE spatial_row(line)
    IN  IF new = <<>> THEN <<>> ELSE rows \o new

\* the body of the loop over the lines: data after one more line
parse_line(kind, rows, line) ==
    rows \o (IF kind = "time" THEN time_series_row(line) ELSE spatial_row(line))

ParseLine ==
    /\ pcP = "parse"
    /\ data' = parse_line(table_kind, data, latex_lines[line_no])
    /\ line_no' = line_no + 1
    /\ pcP' = IF line_no = Len(latex_lines) THEN "done" ELSE "parse"
    /\ UNCHANGED <<fragment, cleaned, value, table_kind, latex_lines, unique_time_data,
                   all_time_data>>
    /\ UNCHANGED <<varsA, varsG, varsM, varsT, varsK, varsB, varsS>>

\* the longest table line and the longest document of the model
MaxCells == 7
MaxLines == 3

\* complete numbers "i.0E+00" .. "j.0E+00", one table cell each
Fill(i, j) == [n \in 1..(j - i + 1) |-> <<DigitChars[i + n]>> \o <<".", "0", "E", "+", "0", "0">>]

\* one line of a LaTeX table: the cells separated by & and closed by \\
TableLine(cells) ==
    LET RECURSIVE Joined(_)
        Joined(i) == IF i > Len(cells) THEN <<" ", "\\", "\\">>
                     ELSE (IF i = 1 THEN <<>> ELSE <<" ", "&", " ">>)
                          \o cells[i] \o Joined(i + 1)
    IN  Joined(1)

\* the fragments OCR leaves of one number: split at the decimal point and
\* before the exponent digits, a row index, a number without its leading
\* digit, a signed or unsigned exponent in its own cell, the letters Ol for
\* 01, the marker -0., text, nan
Fragments ==
    {<<>>,
     <<<<"2">>, <<".", "4", "0", "0", "0", "0", "0", "E">>, <<"0", "2">>>>,
     <<<<"1", "2">>, <<".", "4", "E">>, <<"0", "2">>>>,
     <<<<"2">>, <<".", "4", "E">>>>,
     <<<<"7">>>>,
     <<<<"1", "2">>>>,
     <<<<".", "4", "0", "0", "0", "0", "0", "E">>, <<"0", "2">>>>,
     <<<<".", "5">>>>,
     <<<<"1", ".", "5", "E">>, <<"-", "0", "4">>>>,
     <<<<"1", ".", "5", "E">>, <<"0", "4">>>>,
     <<<<"1", ".", "5", "E", "-", "0", "1">>, <<"0", "2">>>>,
     <<<<"1", ".", "5">>, <<"0", "2">>>>,
     <<<<"1", ".", "5", "1", "0", "0", "7", "8", "E">>, <<"O", "l">>>>,
     <<<<"1", ".", "5", "1", "0", "0", "7", "8", "E", " ", "O", "l">>>>,
     <<<<"-", "0", ".">>>>,
     <<<<"-", "0", ".">>, <<"1", "2">>>>,
     <<<<"x">>>>,
     <<<<"n", "a", "n">>>>}

\* table lines with the fragments of one number after a complete cells
Lines ==
    {TableLine(Fill(1, a) \o c \o Fill(a + 1, k)) :
        a \in 0..1, c \in Fragments, k \in 4..MaxCells}

\* lines of a table as they follow each other in the document: complete
\* rows, a split number, a malformed number, a heading
Mixed ==
    {TableLine(Fill(1, 6)),
     TableLine(<<<<"2">>, <<".", "4", "0", "0", "0", "0", "0", "E">>, <<"0", "2">>>> \o Fill(3, 7)),
     TableLine(<<<<"1", ".", "5", "E">>, <<"-", "0", "4">>>> \o Fill(1, 6)),
     <<"T", "I", "M", "E", " ", "&", " ", "Q", "P", " ", "&", " ", "P", "O", "W", "E", "R", " ", "\\", "\\">>}

Documents == {<<l>> : l \in Lines} \cup UNION {[1..n -> Mixed] : n \in 2..MaxLines}

InitRows ==
    /\ pcP = "parse"
    /\ table_kind \in {"time", "spatial"}
    /\ latex_lines \in Documents
    /\ line_no = 1
    /\ data = <<>>
    /\ fragment = <<>> /\ cleaned = <<>> /\ value = [k |-> "err"]
    /\ unique_time_data = <<>> /\ all_time_data = <<>>
    /\ IdleA /\ IdleG /\ IdleM /\ IdleT /\ IdleK /\ IdleB /\ IdleS

SpecRows == InitRows /\ [][ParseLine]_vars

\* the values of complete numbers, one per cell
Numbers(cells) == [j \in 1..Len(cells) |-> float(cells[j])]

\* a number split at the decimal point and before its exponent digits
SplitNumbers ==
    {f \in Fragments : /\ Len(f) = 3
                       /\ \A n \in 1..Len(f[1]) : f[1][n] \in SeqRange(DigitChars)
                       /\ f[2][1] = "." /\ f[2][Len(f[2])] = "E"
                       /\ Len(f[3]) = 2}

\* C13 (as claimed): in parse_time_series_table a 1-2 digit fragment d, a
\* fragment ".mmmE" and a two-digit fragment xx are consumed together, so a
\* line holding them among complete numbers gives the row of those numbers
\* with the single value d.mmmE+xx in their place.
C13_SplitNumberClaim ==
    \A a \in 0..1, k \in 5..MaxCells, f \in SplitNumbers :
        (/\ pcP = "done"
         /\ table_kind = "time"
         /\ latex_lines = <<TableLine(Fill(1, a) \o f \o Fill(a + 1, k))>>)
        => data = <<SubSeq(Numbers(Fill(1, a) \o <<f[1] \o f[2] \o <<"+">> \o f[3]>>
                                   \o Fill(a + 1, k)), 1, 6)>>

\* a mantissa followed by a two-digit, optionally signed, fragment
Suffixed ==
    {f \in Fragments :
        /\ Len(f) = 2
        /\ f[1][1] \in SeqRange(DigitChars)
        /\ Contains(f[1], <<".">>)
        /\ Len(f[2]) \in 2..3
        /\ \A n \in 1..Len(f[2]) :
              \/ f[2][n] \in SeqRange(DigitChars)
              \/ n = 1 /\ Len(f[2]) = 3 /\ f[2][n] \in {"+", "-"}}

\* C14 (as claimed): in both row parsers the fragment after a mantissa is
\* consumed as its exponent if and only if the mantissa ends with E and the
\* fragment is a two-digit, optionally signed, group; otherwise the mantissa
\* is a complete number by itself.
C14_ExponentSuffixClaim ==
    \A f \in Suffixed, k \in 6..MaxCells :
        (pcP = "done" /\ latex_lines = <<TableLine(f \o Fill(1, k))>>)
        => /\ Len(data) = 1
           /\ data[1][1] = IF f[1][Len(f[1])] = "E"
                           THEN float(clean_latex_number(f[1] \o f[2]))
                           ELSE float(clean_latex_number(f[1]))

\* C15 (as claimed): the fragments "1.510078E" and "Ol" of one number give
\* the value 15.10078 in both row parsers, and the row is not skipped.
C15_LetterSuffixClaim ==
    \A k \in 5..MaxCells :
        (/\ pcP = "done"
         /\ latex_lines = <<TableLine(<<<<"1", ".", "5", "1", "0", "0", "7", "8", "E">>,
                                        <<"O", "l">>>> \o Fill(1, k))>>)
        => /\ Len(data) = 1
           /\ data[1][1] = float(<<"1", "5", ".", "1", "0", "0", "7", "8">>)

\* C16 (as claimed): the fragment "-0." contributes 0.0 to its column in
\* both row parsers, at every position of the row and whatever fragment
\* follows it, and the row is not skipped.
C16_MinusZeroClaim ==
    \A a \in 0..1, k \in 5..MaxCells, f \in {<<<<"-", "0", ".">>>>,
                                              <<<<"-", "0", ".">>, <<"1", "2">>>>} :
        (pcP = "done" /\ latex_lines = <<TableLine(Fill(1, a) \o f \o Fill(a + 1, k))>>)
        => /\ Len(data) = 1
           /\ data[1][a + 1] = float(<<"0", ".", "0">>)

\* the rows obtained from the first n lines, each parsed alone
RECURSIVE RowsOfEach(_)
RowsOfEach(n) ==
    IF n = 0 THEN <<>>
    ELSE RowsOfEach(n - 1) \o parse_line(table_kind, <<>>, latex_lines[n])

\* C18: whatever the lines are, the rows collected are the rows of the lines
\* read so far, each parsed alone, in the order of the lines; no line stops the
\* loop, which ends after the last line.
C18_RowsConcatenated ==
    /\ pcP \in {"parse", "done"} =>
          /\ data = RowsOfEach(line_no - 1)
          /\ (pcP = "done") = (line_no = Len(latex_lines) + 1)
    /\ pcP = "parse" => line_no \in 1..Len(latex_lines)

\* a complete row, a line with a malformed number and a split number have
\* been read: the rows before and after the malformed line are there
C18_Witness ==
    /\ pcP = "done"
    /\ latex_lines = <<TableLine(Fill(1, 6)),
                       TableLine(<<<<"1", ".", "5", "E">>, <<"-", "0", "4">>>> \o Fill(1, 6)),
                       TableLine(<<<<"2">>, <<".", "4", "0", "0", "0", "0", "0", "E">>,
                                   <<"0", "2">>>> \o Fill(3, 7))>>
    /\ table_kind = "time"
    /\ data = <<Numbers(Fill(1, 6)),
                <<float(<<"2", "4", "0">>)>> \o Numbers(Fill(3, 7))>>

\* C19: every row collected by either parser has exactly 6 values, all of
\* them floats; a line of complete numbers gives its first 6 numbers when it
\* has 6 or more and no row (and no failure) when it has fewer.
C19_FixedArity ==
    /\ \A r \in 1..Len(data) :
          Len(data[r]) = 6 /\ \A j \in 1..6 : data[r][j].k \in {"dec", "nan"}
    /\ \A k \in 4..MaxCells :
          (pcP = "done" /\ latex_lines = <<TableLine(Fill(1, k))>>)
          => data = IF k >= 6 THEN <<Numbers(Fill(1, 6))>> ELSE <<>>

\* a line of 7 complete numbers has been parsed as a time-series line: its
\* row holds the first 6
C19_Witness ==
    /\ pcP = "done"
    /\ table_kind = "time"
    /\ latex_lines = <<TableLine(Fill(1, 7))>>
    /\ data = <<Numbers(Fill(1, 6))>>

-----------------------------------------------------------------------------
(* parse_latex_tables.py: the time-series dataset of                       *)
(* extract_all_geneve10_tables                                             *)

\* round(x, 6) of a float; an exact tie of the decimal goes to the even
\* neighbour (none of the times enumerated is a tie)
round(x) ==
    IF x.k # "dec" \/ x.e >= -6 THEN x
    ELSE LET d == 10 ^ (-6 - x.e)
             a == IF x.m < 0 THEN -x.m ELSE x.m
             q == a \div d
             up == 2 * (a % d) > d \/ (2 * (a % d) = d /\ q % 2 = 1)
             r == IF up THEN q + 1 ELSE q
         IN  Dec(IF x.m < 0 THEN -r ELSE r, -6)

\* a variant of the loop of lines 257-263 in which a later row replaces
\* the row kept for its key
Deduplicated_LastWins(rows) ==
    LET SameKey(x, y) == x.k = "dec" /\ y.k = "dec" /\ round(x) = round(y)
        IsKept(i) == \A j \in (i + 1)..Len(rows) : ~SameKey(rows[i][1], rows[j][1])
        kept == SelectSeq([i \in 1..Len(rows) |-> i], IsKept)
    IN  [j \in 1..Len(kept) |-> rows[kept[j]]]

\* the rows kept by lines 257-263: a row is kept unless the key
\* round(row[0], 6) of an earlier kept row equals its key; a NaN key equals
\* no key, not even itself (every float() call returns a new object)
Deduplicated(rows) ==
    LET SameKey(x, y) == x.k = "dec" /\ y.k = "dec" /\ round(x) = round(y)
        RECURSIVE Kept(_)
        \* the positions kept among the first n rows
        Kept(n) == IF n = 0 THEN {}
                   ELSE IF \E j \in Kept(n - 1) : SameKey(rows[j][1], rows[n][1])
                        THEN Kept(n - 1)
                        ELSE Kept(n - 1) \cup {n}
        IsKept(i) == i \in Kept(Len(rows))
    IN  [j \in 1..Cardinality(Kept(Len(rows))) |->
            rows[SelectSeq([i \in 1..Len(rows) |-> i], IsKept)[j]]]

\* sorted(rows, key=lambda x: x[0]) as list.sort does it for a short list:
\* the run at the start of the list is found (and reversed when it is
\* strictly descending), then every later row is inserted into the sorted
\* part at the position found by binary search; a comparison with NaN is
\* false
sorted(rows) ==
    LET n == Len(rows)
        lt(x, y) ==
            /\ x.k = "dec" /\ y.k = "dec"
            /\ LET e == IF x.e < y.e THEN x.e ELSE y.e
               IN  x.m * 10 ^ (x.e - e) < y.m * 10 ^ (y.e - e)
        Less(a, b) == lt(a[1], b[1])
        descending == n >= 2 /\ Less(rows[2], rows[1])
        RunEnds(r) == \/ r = n
                      \/ (IF descending THEN ~Less(rows[r + 1], rows[r])
                          ELSE Less(rows[r + 1], rows[r]))
        run == IF n <= 1 THEN n
               ELSE CHOOSE r \in 2..n : RunEnds(r) /\ \A q \in 2..(r - 1) : ~RunEnds(q)
        start == [i \in 1..run |-> IF descending THEN rows[run + 1 - i] ELSE rows[i]]
        RECURSIVE Position(_, _, _, _)
        Position(s, pivot, l, r) ==
            IF l >= r THEN l
            ELSE LET p == l + (r - l) \div 2
                 IN  IF Less(pivot, s[p + 1]) THEN Position(s, pivot, l, p)
                     ELSE Position(s, pivot, p + 1, r)
        RECURSIVE Inserted(_, _)
        Inserted(s, i) ==
            IF i > n THEN s
            ELSE LET p == Position(s, rows[i], 0, Len(s))
                 IN  Inserted(SubSeq(s, 1, p) \o <<rows[i]>> \o SubSeq(s, p + 1, Len(s)),
                              i + 1)
    IN  Inserted(start, run + 1)

\* lines 255-264: the rows of all time-series tables without duplicate
\* times, sorted by time
DedupAndSort ==
    /\ pcP = "done"
    /\ table_kind = "time"
    /\ unique_time_data' = Deduplicated(data)
    /\ all_time_data' = sorted(Deduplicated(data))
    /\ pcP' = "returned"
    /\ UNCHANGED <<fragment, cleaned, value, table_kind, latex_lines, line_no, data>>
    /\ UNCHANGED <<varsA, varsG, varsM, varsT, varsK, varsB, varsS>>

\* the lines of the time-series tables of a document: rows that differ in
\* their time, by less than the rounding of the key for the first three, and
\* a row whose time cell reads nan
InitDataset ==
    /\ pcP = "parse"
    /\ table_kind = "time"
    /\ \E n \in 1..MaxLines :
          latex_lines \in [1..n -> {TableLine(<<t>> \o Fill(1, 5)) :
                                       t \in {<<"1", ".", "0", "E", "+", "0", "0">>,
                                              <<"1", ".", "0", "0", "0", "0", "0", "0", "4">>,
                                              <<"9", ".", "9", "9", "9", "9", "9", "9", "E", "-", "0", "1">>,
                                              <<"2", ".", "0", "E", "+", "0", "0">>,
                                              <<"5", ".", "0", "E", "-", "0", "1">>,
                                              <<"n", "a", "n">>}}]
    /\ line_no = 1
    /\ data = <<>>
    /\ fragment = <<>> /\ cleaned = <<>> /\ value = [k |-> "err"]
    /\ unique_time_data = <<>> /\ all_time_data = <<>>
    /\ IdleA /\ IdleG /\ IdleM /\ IdleT /\ IdleK /\ IdleB /\ IdleS

NextDataset == ParseLine \/ DedupAndSort

SpecDataset == InitDataset /\ [][NextDataset]_vars

\* x < y for two floats: false when either is NaN
Earlier(x, y) ==
    /\ x.k = "dec" /\ y.k = "dec"
    /\ \E s \in 0..9 : /\ x.e + s >= 0 /\ y.e + s >= 0
                       /\ x.e + s = 0 \/ y.e + s = 0
                       /\ x.m * 10 ^ (x.e + s) < y.m * 10 ^ (y.e + s)

\* C20 (as claimed): in the time-series dataset returned for any document no
\* two records have the same rounded time and the records are in strictly
\* ascending order of time.
C20_DatasetInvariantClaim ==
    pcP = "returned" =>
        \A i, j \in 1..Len(all_time_data) :
            i < j => /\ round(all_time_data[i][1]) # round(all_time_data[j][1])
                     /\ Earlier(all_time_data[i][1], all_time_data[j][1])

\* the rows of s as a bag
RowBag(s) == [r \in SeqRange(s) |-> Cardinality({i \in 1..Len(s) : s[i] = r})]

C22_IdempotentClaim ==
    pcP = "returned" =>
        /\ sorted(Deduplicated(all_time_data)) = all_time_data
        /\ (Len(data) = 2 /\ data[1] = data[2]) => Len(all_time_data) = 1
        /\ (\A i, j \in 1..Len(data) : i < j => round(data[i][1]) # round(data[j][1]))
           => \A f \in Permutations(1..Len(data)) :
                 sorted(Deduplicated([i \in 1..Len(data) |-> data[f[i]]])) = all_time_data

\* C27 (as claimed): in parse_time_series_table a fragment that begins with
\* '.' and does not follow a 1-2 digit integer fragment is completed with
\* the digit 2 in whichever column it stands, and a 1-2 digit integer
\* fragment not followed by a '.'-fragment contributes no value.
C27_LeadingDigitClaim ==
    \A a \in 0..1, k \in 5..MaxCells :
        (pcP = "done" /\ table_kind = "time") =>
            /\ \A f \in {<<<<".", "4", "0", "0", "0", "0", "0", "E">>, <<"0", "2">>>>,
                         <<<<".", "5">>>>} :
                  latex_lines = <<TableLine(Fill(1, a) \o f \o Fill(a + 1, k))>>
                  => data = <<SubSeq(Numbers(Fill(1, a)
                                             \o <<<<"2">> \o f[1]
                                                  \o (IF Len(f) = 2 THEN <<"+">> \o f[2]
                                                      ELSE <<>>)>>
                                             \o Fill(a + 1, k)), 1, 6)>>
            /\ \A d \in {<<"7">>, <<"1", "2">>} :
                  (k >= 6 /\ latex_lines = <<TableLine(Fill(1, a) \o <<d>> \o Fill(a + 1, k))>>)
                  => data = <<SubSeq(Numbers(Fill(1, k)), 1, 6)>>

\* the zone_index main writes for the row at position r of a snapshot
\* (enumerate(spatial_vals, start=2))
zone_index(r) == r + 1

\* C25 (as claimed): in a spatial snapshot the radius (second value of a row
\* of parse_spatial_table) does not decrease as zone_index grows.
C25_RadiusMonotoneClaim ==
    (pcP = "done" /\ table_kind = "spatial") =>
        \A r, q \in 1..Len(data) :
            zone_index(r) < zone_index(q) => ~Earlier(data[q][2], data[r][2])

-----------------------------------------------------------------------------
(* parse_latex_tables.py: the table blocks of extract_all_geneve10_tables. *)
(* A line is the text readlines() returns for it, the newline included, so  *)
(* no keyword extends over two lines of a joined text.                     *)

BeginTabular == <<"\\", "b", "e", "g", "i", "n", "{", "t", "a", "b", "u", "l", "a", "r", "}">>

EndTabular == <<"\\", "e", "n", "d", "{", "t", "a", "b", "u", "l", "a", "r", "}">>

\* the header keywords that must all occur in the text of a block
KindKeywords ==
    [time    |-> {<<"T", "I", "M", "E">>, <<"Q", "P">>, <<"P", "O", "W", "E", "R">>},
     spatial |-> {<<"D", "E", "N", "S", "I", "T", "Y">>, <<"R", "A", "D", "I", "U", "S">>,
                  <<"V", "E", "L", "O", "C", "I", "T", "Y">>}]

\* ''.join(doc[lo:hi]): the lines with the 0-based indices lo .. hi - 1 that
\* exist
RECURSIVE join(_, _, _)
join(doc, lo, hi) ==
    IF lo >= hi \/ lo >= Len(doc) THEN <<>>
    ELSE doc[lo + 1] \o join(doc, lo + 1, hi)

\* a variant of Opens that looks for the marker one line further down
Opens_Wider(doc, i, open) ==
    /\ Contains(doc[i + 1], BeginTabular)
    /\ ~open
    /\ LET context == join(doc, IF i - 10 > 0 THEN i - 10 ELSE 0, i + 6)
       IN  \/ Contains(context, <<"G", "E", "N", "E", "V", "E", " ", "1", "0">>)
           \/ Contains(context, <<"G", "E", "N", "E", "V", "E", "1", "0">>)

\* lines 210-215: line i opens a block
Opens(doc, i, open) ==
    /\ Contains(doc[i + 1], BeginTabular)
    /\ ~open
    /\ LET context == join(doc, IF i - 10 > 0 THEN i - 10 ELSE 0, i + 5)
       IN  \/ Contains(context, <<"G", "E", "N", "E", "V", "E", " ", "1", "0">>)
           \/ Contains(context, <<"G", "E", "N", "E", "V", "E", "1", "0">>)

\* a variant of Closes that does not ask for an open block
Closes_Unopened(doc, i, open) ==
    /\ ~(Contains(doc[i + 1], BeginTabular) /\ ~open)
    /\ Contains(doc[i + 1], EndTabular)

\* lines 216-218: line i closes the open block
Closes(doc, i, open) ==
    /\ ~(Contains(doc[i + 1], BeginTabular) /\ ~open)
    /\ Contains(doc[i + 1], EndTabular)
    /\ open

\* one pass of the loop of lines 209-218
ScanLine ==
    /\ pcB = "scan"
    /\ line_index < Len(lines)
    /\ IF Opens(lines, line_index, in_table)
       THEN /\ in_table' = TRUE
            /\ table_start' = line_index
            /\ UNCHANGED table_blocks
       ELSE IF Closes(lines, line_index, in_table)
       THEN /\ table_blocks' = Append(table_blocks, <<table_start, line_index + 1>>)
            /\ in_table' = FALSE
            /\ UNCHANGED table_start
       ELSE UNCHANGED <<in_table, table_start, table_blocks>>
    /\ line_index' = line_index + 1
    /\ pcB' = IF line_index + 1 < Len(lines) THEN "scan"
              ELSE IF table_blocks' = <<>> THEN "done" ELSE "classify"
    /\ UNCHANGED <<lines, block_kinds>>
    /\ UNCHANGED <<varsA, varsG, varsM, varsT, varsK, varsP, varsS>>

\* one pass of the loop of lines 226-253: the parser the next block is given
\* to, chosen from the text of the block and of the 10 lines after it
ClassifyBlock ==
    /\ pcB = "classify"
    /\ LET start == table_blocks[Len(block_kinds) + 1][1]
           end == table_blocks[Len(block_kinds) + 1][2]
           table_text == join(lines, start, IF end + 10 < Len(lines) THEN end + 10
                                            ELSE Len(lines))
           kind == IF \A w \in KindKeywords.time : Contains(table_text, w) THEN "time"
                   ELSE IF \A w \in KindKeywords.spatial : Contains(table_text, w)
                   THEN "spatial"
                   ELSE "none"
       IN  block_kinds' = Append(block_kinds, kind)
    /\ pcB' = IF Len(block_kinds) + 1 < Len(table_blocks) THEN "classify" ELSE "done"
    /\ UNCHANGED <<lines, line_index, in_table, table_start, table_blocks>>
    /\ UNCHANGED <<varsA, varsG, varsM, varsT, varsK, varsP, varsS>>

\* the longest document built freely from the kinds of line
MaxDoc == 4

\* documents: every sequence of up to MaxDoc lines out of an empty line, the
\* two tabular markers, the GENEVE 10 mark and the two headings; and
\* documents that put the mark or a heading at the edge of the window that
\* is searched for it
InitBlocks ==
    /\ pcB = "scan"
    /\ LET blank == <<"\n">>
           begin == <<"\\", "b", "e", "g", "i", "n", "{", "t", "a", "b", "u", "l", "a", "r", "}", "{", "c", "c", "c", "c", "c", "c", "}", "\n">>
           end == <<"\\", "e", "n", "d", "{", "t", "a", "b", "u", "l", "a", "r", "}", "\n">>
           mark == <<"G", "E", "N", "E", "V", "E", " ", "1", "0", "\n">>
           mark2 == <<"G", "E", "N", "E", "V", "E", "1", "0", "\n">>
           both == <<"\\", "e", "n", "d", "{", "t", "a", "b", "u", "l", "a", "r", "}", " ", "\\", "b", "e", "g", "i", "n", "{", "t", "a", "b", "u", "l", "a", "r", "}", "{", "c", "c", "}", "\n">>
           timehdr == <<"T", "I", "M", "E", " ", "&", " ", "Q", "P", " ", "&", " ", "P", "O", "W", "E", "R", " ", "\\", "\\", "\n">>
           spathdr == <<"D", "E", "N", "S", "I", "T", "Y", " ", "&", " ", "R", "A", "D", "I", "U", "S", " ", "&", " ", "V", "E", "L", "O", "C", "I", "T", "Y", " ", "\\", "\\", "\n">>
           Blank(k) == [j \in 1..k |-> blank]
       IN  lines \in UNION {[1..n -> {blank, begin, end, mark, timehdr, spathdr}] :
                               n \in 1..MaxDoc}
                     \cup {<<mark>> \o Blank(k) \o <<begin, timehdr, end>> : k \in 8..11}
                     \cup {<<begin>> \o Blank(k) \o <<mark2, end>> : k \in 2..5}
                     \cup {<<mark, begin, end>> \o Blank(k) \o <<h>> :
                              k \in 8..11, h \in {timehdr, spathdr}}
                     \cup {<<h, mark, begin, end>> : h \in {timehdr, spathdr}}
                     \cup {<<mark, begin, spathdr, both, timehdr, end, begin, end>>}
    /\ line_index = 0
    /\ in_table = FALSE
    /\ table_start = -1
    /\ table_blocks = <<>>
    /\ block_kinds = <<>>
    /\ IdleA /\ IdleG /\ IdleM /\ IdleT /\ IdleK /\ IdleP /\ IdleS

NextBlocks == ScanLine \/ ClassifyBlock

SpecBlocks == InitBlocks /\ [][NextBlocks]_vars

\* C23: the blocks found so far are line ranges inside the document, every
\* block ends before the next one starts, and they are listed by increasing
\* start.
C23_BlocksDisjoint ==
    /\ \A b \in 1..Len(table_blocks) :
          /\ 0 <= table_blocks[b][1]
          /\ table_blocks[b][1] < table_blocks[b][2]
          /\ table_blocks[b][2] <= Len(lines)
    /\ \A a, b \in 1..Len(table_blocks) :
          a < b => table_blocks[a][2] <= table_blocks[b][1]

\* a document with two blocks, the first closed by a line that also holds
\* \begin{tabular} and followed by an \end{tabular} outside every block, has
\* been scanned
C23_Witness ==
    /\ pcB = "done"
    /\ table_blocks = <<<<1, 4>>, <<6, 8>>>>
    /\ Contains(lines[6], EndTabular)

\* the line with the 0-based index s holds \begin{tabular}, \end{tabular}
Begins(s) == Contains(lines[s + 1], BeginTabular)

Ends(s) == Contains(lines[s + 1], EndTabular)

\* one of the lines from 10 before to 4 after line s holds the GENEVE 10 mark
Marked(s) ==
    \E j \in (s - 10)..(s + 4) :
        /\ 0 <= j /\ j < Len(lines)
        /\ \/ Contains(lines[j + 1], <<"G", "E", "N", "E", "V", "E", " ", "1", "0">>)
           \/ Contains(lines[j + 1], <<"G", "E", "N", "E", "V", "E", "1", "0">>)

\* line s was met while a block was open
MetWhileOpen(s) ==
    \/ \E b \in 1..Len(table_blocks) : table_blocks[b][1] < s /\ s < table_blocks[b][2]
    \/ in_table /\ table_start < s

\* C26: after any number of lines, every block in the list starts at a
\* marked \begin{tabular} line and ends just after the first later
\* \end{tabular} line; the open block, if any, started at such a line, no
\* \end{tabular} line has followed it and it is not in the list; and every
\* marked \begin{tabular} line scanned while no block was open started a
\* block.
C26_LocatorStateMachine ==
    /\ \A b \in 1..Len(table_blocks) :
          LET s == table_blocks[b][1]
              e == table_blocks[b][2]
          IN  /\ Begins(s) /\ Marked(s)
              /\ s < e - 1 /\ e <= line_index
              /\ Ends(e - 1)
              /\ \A j \in (s + 1)..(e - 2) : ~Ends(j)
    /\ in_table =>
          /\ 0 <= table_start /\ table_start < line_index
          /\ Begins(table_start) /\ Marked(table_start)
          /\ \A j \in (table_start + 1)..(line_index - 1) : ~Ends(j)
          /\ \A b \in 1..Len(table_blocks) : table_blocks[b][2] <= table_start
    /\ \A s \in 0..(line_index - 1) :
          (Begins(s) /\ Marked(s) /\ ~MetWhileOpen(s))
          => \/ in_table /\ table_start = s
             \/ \E b \in 1..Len(table_blocks) : table_blocks[b][1] = s

\* a document has been scanned to its end in which a block was closed and a
\* second one opened and never closed: only the first is in the list
C26_Witness ==
    /\ pcB = "classify"
    /\ line_index = Len(lines)
    /\ table_blocks = <<<<1, 3>>>>
    /\ in_table /\ table_start = 3

\* the kind of the block starting at line s as claimed: the keyword set
\* whose members all occur in the 10 lines before the block-start marker
LookbackKind(s) ==
    LET InWindow(w) == \E j \in (s - 10)..(s - 1) : 0 <= j /\ Contains(lines[j + 1], w)
    IN  IF \A w \in KindKeywords.time : InWindow(w) THEN "time"
        ELSE IF \A w \in KindKeywords.spatial : InWindow(w) THEN "spatial"
        ELSE "none"

\* C24 (as claimed): the kind of a block is given by the header keywords
\* that occur together in the lookback window before its start marker, and
\* text after its end marker has no influence on it.
C24_KindFromLookbackClaim ==
    \A b \in 1..Len(block_kinds) :
        /\ block_kinds[b] = LookbackKind(table_blocks[b][1])
        /\ block_kinds[b] # "none" =>
              \A w \in KindKeywords[block_kinds[b]] :
                  \E j \in 0..(table_blocks[b][2] - 1) : Contains(lines[j + 1], w)

-----------------------------------------------------------------------------
(* validate_simulation.main: the two validators, then the final summary.   *)

\* validate_spatial_profile: None for a missing file or an empty merge,
\* IndexError when the zone before the density jump is not among the merged
\* zones, else all_pass (false once a quantity is ACCEPTABLE or NEEDS WORK)
validate_spatial_profile(f) ==
    IF ~f.ref \/ ~f.sim \/ f.matched = 0 THEN "None"
    ELSE IF f.boundary = "edge_unmatched" THEN "raised"
    ELSE IF f.worst \in {"EXCELLENT", "GOOD"} THEN "all_pass"
    ELSE "not_all_pass"

\* time_results, time_pass = validate_time_evolution(): None cannot be
\* unpacked, the TypeError ends main
UnpackTime ==
    /\ pcS = "time"
    /\ pcT = "returned"
    /\ pcS' = IF returned = "None" THEN "raised" ELSE "spatial"
    /\ UNCHANGED <<spatial_files, spatial_returned, summary>>
    /\ UNCHANGED <<varsA, varsG, varsM, varsT, varsK, varsP, varsB>>

\* spatial_results, spatial_pass = validate_spatial_profile()
ValidateSpatial ==
    /\ pcS = "spatial"
    /\ LET r == validate_spatial_profile(spatial_files)
       IN  /\ spatial_returned' = IF r = "raised" THEN spatial_returned ELSE r
           /\ pcS' = IF r \in {"raised", "None"} THEN "raised" ELSE "summary"
    /\ UNCHANGED <<spatial_files, summary>>
    /\ UNCHANGED <<varsA, varsG, varsM, varsT, varsK, varsP, varsB>>

\* the verdict under FINAL VALIDATION SUMMARY
FinalSummary ==
    /\ pcS = "summary"
    /\ LET time_pass == returned = "all_pass"
           spatial_pass == spatial_returned = "all_pass"
       IN  summary' =
             IF returned # "None" /\ spatial_returned # "None"
             THEN IF time_pass /\ spatial_pass THEN "VALIDATION PASSED"
                  ELSE IF time_pass \/ spatial_pass THEN "PARTIAL VALIDATION"
                  ELSE "VALIDATION INCOMPLETE"
             ELSE "VALIDATION FAILED"
    /\ pcS' = "done"
    /\ UNCHANGED <<spatial_files, spatial_returned>>
    /\ UNCHANGED <<varsA, varsG, varsM, varsT, varsK, varsP, varsB>>

InitMain ==
    /\ IdleA
    /\ IdleG
    /\ IdleM
    /\ IdleK
    /\ IdleP
    /\ IdleB
    /\ pcT = "load"
    /\ ref_file \in {ExampleRefFile, NoFile,
                     File(<<RefRow(Q(132, 1), "plain")>>),
                     File(<<RefRow(Q(300, 1), "plain")>>)}
    /\ sim_file \in {ExampleSimFile, NoFile,
                     File(<<SimRow(Q(1319, 10), "exact")>>),
                     File(<<SimRow(Q(1319, 10), "qp5")>>)}
    /\ t_index = 0
    /\ results = <<>>
    /\ returned = "pending"
    /\ pcS = "time"
    /\ spatial_files \in [ref : BOOLEAN, sim : BOOLEAN, matched : 0..1,
                          worst : {"GOOD", "ACCEPTABLE"},
                          boundary : {"none", "edge_matched", "edge_unmatched"}]
    /\ spatial_returned = "pending"
    /\ summary = ""

NextMain ==
    \/ LoadTimeEvolution
    \/ MatchRow
    \/ Assess
    \/ UnpackTime
    \/ ValidateSpatial
    \/ FinalSummary

SpecMain == InitMain /\ [][NextMain]_vars

\* C28 (as claimed): main never ends in an unhandled error, and when either
\* validator returned None the final summary reads VALIDATION FAILED.
C28_AlwaysSummaryClaim ==
    /\ pcS # "raised"
    /\ (pcS = "done" /\ (returned = "None" \/ spatial_returned = "None")) =>
           summary = "VALIDATION FAILED"

-----------------------------------------------------------------------------
(* Properties of the verdicts: exact agreement and empty comparisons.      *)

\* every reference row within the limit has a usable simulation row, and
\* the nearest one holds exactly the reference's QP, power, alpha and W
ExactAgreement ==
    /\ ref_csv.exists
    /\ sim_csv.exists
    /\ \A i \in InLimitRows :
          /\ Usable # {}
          /\ \A c \in SeqRange(CheckedColumns) :
                sim_csv.rows[NearestUsable(i)][c] = ref_csv.rows[i][c]

\* C29 (as claimed): when every reference row within the limit is matched
\* by a simulation row with exactly its QP, power, alpha and W, run_check
\* returns a true success flag, whatever the tolerances and also when a
\* reference value is 0.
C29_ExactAgreementClaim ==
    (pcK = "exit" /\ ExactAgreement) => (passed /\ exit_status = 0)

\* C30 (as claimed): validate_results.main returns 0 only when a quantity
\* has a metric entry, and run_check returns a true success flag only when a
\* reference row was compared.
C30_NonEmptyPassClaim ==
    /\ (pcM = "exit" /\ exit_code = 0) => DOMAIN AllErrors # {}
    /\ (pcK = "exit" /\ passed) => Len(k_rows) >= 1

====
